---- MODULE Spec2Model ----
(***************************************************************************)
(* Model of the event-projection engine of av-map-data: the function       *)
(* buildServiceAreasFromEvents of rebuild-cache.js (src/unnamed/part_005,  *)
(* lines 1118-1368) with its helpers transformEventData and                *)
(* parseInlineCoordinates.                                                 *)
(*                                                                         *)
(* Representation.                                                         *)
(*  - A JS string attribute is a TLA+ string; a key that is absent from an *)
(*    object (or holds undefined) is the string Undefined.                 *)
(*  - A geometry reference (geometry_name / geojsonPath) is the sequence   *)
(*    of its characters, so that the regular expression of                 *)
(*    parseInlineCoordinates is computed; the absent reference is <<>>.    *)
(*  - A value that may be missing and is not a string (endDate,            *)
(*    area_square_miles, coordinates) is <<>> when missing/null and a      *)
(*    non-empty tuple otherwise.  effectiveDate and lastUpdated are set on *)
(*    every state the engine builds; the 0 of EmptyState is never read.    *)
(*  - event_date is a calendar day, written as its day number; new Date()  *)
(*    of it is the instant of that day and toISOString() names the same    *)
(*    instant, so both are kept as the day number.  The id keeps the raw   *)
(*    event_date next to the serviceId, as the template string does.       *)
(*  - currentServiceStates maps a service to a JS object.  Most of the     *)
(*    time that object IS an element of allStates (the same reference is   *)
(*    pushed and stored), so a later write to the element is seen through  *)
(*    the map: such an entry is [tag |-> "ref", ref |-> index].  After     *)
(*    service_ended the map holds a fresh copy: [tag |-> "copy"].          *)
(***************************************************************************)
EXTENDS Integers, Sequences, FiniteSets, TLC

VARIABLES
  events,                \* the events argument, as far as it has been read
  sortedEvents,          \* const sortedEvents (line 1122)
  idx,                   \* number of events the for-loop has consumed
  allStates,             \* const allStates (line 1120)
  currentServiceStates,  \* const currentServiceStates (line 1119)
  geometryMap,           \* the geometryMap argument
  pc,                    \* "loop" while the for-loop runs, "done" after return
  returned,              \* the lists the calls made so far have returned
  \* validate-csv.js
  records,               \* the parsed rows of events.csv
  serviceEvents,         \* const serviceEvents: the rows grouped by service
  timeline,              \* the service validateServiceTimeline is working on
  eventIndex,            \* number of its events the forEach has visited
  timelineState,         \* const currentState of validateServiceTimeline
  hasServiceCreated,     \* let hasServiceCreated
  ERRORS,                \* const ERRORS
  WARNINGS,              \* const WARNINGS
  isValid,               \* what validateCSV returned
  vpc,                   \* position of validateCSV
  \* rebuild-cache.js
  isStaging,             \* const isStaging (line 856)
  geometriesMeta,        \* const geometriesMeta (line 903)
  geometriesWithData,    \* const geometriesWithData (line 910)
  cacheData,             \* const cacheData (line 989)
  storage,               \* the data cache bucket
  rebuildError,          \* the error rebuildCache has thrown
  rpc,                   \* position of rebuildCache
  inFlight,              \* the fetch() calls of the batch that have not settled
  batchResults,          \* what the callbacks of the batch have returned
  pendingJson,           \* the OK responses whose response.json() is awaited
  \* what sync-geometries-table.js and upload-geometries.js work on
  geometryTable,         \* the geometries table: storage_url by geometry_name
  geometryBucket,        \* the boundaries bucket: content by file name
  localFolder,           \* ./geometries
  apiFailure,            \* a call of the API has answered with an error
  \* sync-geometries-table.js
  geojsonFiles,          \* const geojsonFiles
  existingNames,         \* const existingNames
  existingUrlMap,        \* const existingUrlMap
  fileIndex,             \* files of geojsonFiles the for-loop has visited
  syncFailed,            \* let failed
  localFileSet,          \* const localFileSet (<<>> for null)
  spc,                   \* position of syncGeometriesTable
  \* upload-geometries.js
  localFiles,            \* const localFiles
  existingFileNames,     \* const existingFileNames
  uploadIndex,           \* files of localFiles the for-loop has visited
  uploaded,              \* let uploaded
  skipped,               \* let skipped
  uploadFailed,          \* let failed
  requests,              \* the upload calls the bucket has received
  upc,                   \* position of uploadGeometries
  \* import-csv.js
  importRecords,         \* const records of importCSV
  importEvents,          \* const events
  eventsTable,           \* the events table of the database
  imported,              \* let imported
  tableRequests,         \* the delete and insert calls the table has received
  ipc,                   \* position of importCSV
  \* the staging tools: sync-prod-to-staging.js, copy-geometries.js,
  \* temp-add-chandler-staging.js and the script of deleteChandler. For them
  \* eventsTable, geometryTable and geometryBucket are the staging ones.
  prodEventsTable,       \* the production table av_events
  prodGeometryTable,     \* the production table service_area_geometries
  prodBucket,            \* the production bucket service-area-boundaries
  prodEvents,            \* const prodEvents of syncProdToStaging
  prodGeometries,        \* const prodGeometries
  pendingCalls,          \* the calls of a Promise.all that have not answered
  callFailed,            \* a call of the Promise.all has answered with an error
  copyFiles,             \* const geojsonFiles of copyGeometries
  copyIndex,             \* files of it the for-loop has dealt with
  fileData,              \* const fileData of the iteration (<<>> for none)
  failCount,             \* let failCount
  tpc                    \* position of the staging tool

engineVars ==
  <<events, sortedEvents, idx, allStates, currentServiceStates, geometryMap, pc, returned>>

validatorVars ==
  <<records, serviceEvents, timeline, eventIndex, timelineState, hasServiceCreated,
    ERRORS, WARNINGS, isValid, vpc>>

cacheVars ==
  <<isStaging, geometriesMeta, geometriesWithData, cacheData, storage, rebuildError, rpc,
    inFlight, batchResults, pendingJson>>

storageVars == <<geometryTable, geometryBucket, localFolder, apiFailure>>

syncVars ==
  <<geojsonFiles, existingNames, existingUrlMap, fileIndex, syncFailed, localFileSet, spc>>

uploadVars ==
  <<localFiles, existingFileNames, uploadIndex, uploaded, skipped, uploadFailed, requests, upc>>

importVars ==
  <<importRecords, importEvents, eventsTable, imported, tableRequests, ipc>>

stagingVars ==
  <<prodEventsTable, prodGeometryTable, prodBucket, prodEvents, prodGeometries,
    pendingCalls, callFailed, copyFiles, copyIndex, fileData, failCount, tpc>>

toolVars == <<storageVars, syncVars, uploadVars, importVars, stagingVars>>

vars == <<engineVars, validatorVars, cacheVars, toolVars>>

----------------------------------------------------------------------------
(* Bounds *)

MaxEvents == 4
MaxDate == 3
\* length of an event list handed over in arbitrary order, and number of
\* calls made on it
MaxList == 4
MaxCalls == 2
\* length of an event list of mixed kinds and services
MaxMixed == 2
\* number of rows of events.csv
MaxRows == 3
\* number of rows of the events.csv that is imported and cached
MaxImported == 2
\* rows of the geometries table
MaxGeometries == 9
\* rows of the files the validator and the engine are compared on
MaxAgreed == 2

----------------------------------------------------------------------------
(* Values *)

Undefined == "undefined"
Null == "null"

Services == {"acme-springfield", "zeta-shelbyville"}

Max(S) == CHOOSE x \in S : \A y \in S : y <= x

\* a || b on two strings (no empty strings occur: csvRowToEvent skips them)
OrStr(a, b) == IF a # Undefined THEN a ELSE b

\* a || b on two geometry references
OrPath(a, b) == IF a # <<>> THEN a ELSE b

----------------------------------------------------------------------------
(* Dates *)

\* new Date(event_date).getTime()
GetTime(event_date) == event_date

\* eventDate.toISOString(), named by its instant
ToISOString(time) == time

\* new Date(isoString).getTime()
TimeOfISO(iso) == iso

----------------------------------------------------------------------------
(* Event payloads *)

NoData ==
  [ geometry_name |-> <<>>, new_geometry_name |-> <<>>,
    vehicle_types |-> Undefined, platform |-> Undefined, fares |-> Undefined,
    direct_booking |-> Undefined, service_model |-> Undefined,
    supervision |-> Undefined, access |-> Undefined,
    fleet_partner |-> Undefined, expected_launch |-> Undefined,
    notes |-> Undefined,
    new_fares |-> Undefined, new_access |-> Undefined,
    new_vehicle_types |-> Undefined, new_platform |-> Undefined,
    new_supervision |-> Undefined, new_service_model |-> Undefined,
    new_fleet_partner |-> Undefined, new_direct_booking |-> Undefined ]

Event(s, d, type, data) ==
  [aggregate_id |-> s, event_date |-> d, event_type |-> type, event_data |-> data]

----------------------------------------------------------------------------
(* transformEventData: snake_case keys become camelCase keys.  The result   *)
(* is given on the keys a lifecycle payload carries; geojsonPath is read    *)
(* from it separately.                                                      *)

AttrKeys ==
  { "vehicleTypes", "platform", "fares", "directBooking", "serviceModel",
    "supervision", "access", "fleetPartner", "expectedLaunch", "notes" }

TransformEventData(eventData) ==
  [ directBooking  |-> eventData.direct_booking,
    vehicleTypes   |-> eventData.vehicle_types,
    fleetPartner   |-> eventData.fleet_partner,
    geojsonPath    |-> eventData.geometry_name,
    serviceModel   |-> eventData.service_model,
    expectedLaunch |-> eventData.expected_launch,
    platform       |-> eventData.platform,
    fares          |-> eventData.fares,
    supervision    |-> eventData.supervision,
    access         |-> eventData.access,
    notes          |-> eventData.notes ]

----------------------------------------------------------------------------
(* parseInlineCoordinates *)

DigitSeq == <<"0", "1", "2", "3", "4", "5", "6", "7", "8", "9">>
Digits == {DigitSeq[i] : i \in 1..10}
DigitVal(c) == (CHOOSE i \in 1..10 : DigitSeq[i] = c) - 1

\* w matches -?\d+\.?\d*
MatchesNumber(w) ==
  LET body == IF Len(w) > 0 /\ w[1] = "-" THEN Tail(w) ELSE w
  IN  /\ Len(body) >= 1
      /\ body[1] \in Digits
      /\ \A i \in 1..Len(body) : body[i] \in Digits \cup {"."}
      /\ Cardinality({i \in 1..Len(body) : body[i] = "."}) <= 1

RECURSIVE DigitsValue(_)
DigitsValue(w) ==
  IF w = <<>> THEN 0 ELSE 10 * DigitsValue(SubSeq(w, 1, Len(w) - 1)) + DigitVal(w[Len(w)])

RECURSIVE StripZeros(_)
StripZeros(w) ==
  IF w # <<>> /\ w[Len(w)] = "0" THEN StripZeros(SubSeq(w, 1, Len(w) - 1)) ELSE w

\* parseFloat of a string that matches -?\d+\.?\d*: the number
\* mantissa / 10^decimals, written <<mantissa, decimals>> without trailing
\* zeros in the fraction, so that equal numbers are equal tuples.
ParseFloat(w) ==
  LET neg  == Len(w) > 0 /\ w[1] = "-"
      body == IF neg THEN Tail(w) ELSE w
      dots == {i \in 1..Len(body) : body[i] = "."}
      dot  == IF dots = {} THEN Len(body) + 1 ELSE Max(dots)
      int  == SubSeq(body, 1, dot - 1)
      frac == StripZeros(SubSeq(body, dot + 1, Len(body)))
      mant == DigitsValue(int \o frac)
  IN  <<IF neg THEN -mant ELSE mant, Len(frac)>>

\* the match of /^(-?\d+\.?\d*),(-?\d+\.?\d*)$/ and the two parseFloat calls;
\* <<>> stands for null
ParseInlineCoordinates(geojsonPath) ==
  LET commas == {i \in 1..Len(geojsonPath) : geojsonPath[i] = ","}
  IN  IF geojsonPath = <<>> THEN <<>>
      ELSE IF Cardinality(commas) # 1 THEN <<>>
      ELSE LET c   == Max(commas)
               lng == SubSeq(geojsonPath, 1, c - 1)
               lat == SubSeq(geojsonPath, c + 1, Len(geojsonPath))
           IN  IF MatchesNumber(lng) /\ MatchesNumber(lat)
               THEN <<ParseFloat(lng), ParseFloat(lat)>>
               ELSE <<>>

----------------------------------------------------------------------------
(* geometryMap.get(path)?.area_square_miles || null                         *)
(* geometryMap is a function from the names it holds to area_square_miles   *)
(* in hundredths of a square mile (the map rounds to two decimals).         *)

AreaSquareMiles(gmap, geojsonPath) ==
  IF geojsonPath \in DOMAIN gmap /\ gmap[geojsonPath] # 0
  THEN <<gmap[geojsonPath]>>
  ELSE <<>>

----------------------------------------------------------------------------
(* Service states *)

\* {} : an object without any key
EmptyState ==
  [ id |-> <<>>, serviceId |-> Undefined,
    effectiveDate |-> 0, lastUpdated |-> 0, endDate |-> <<>>,
    isActive |-> FALSE, status |-> Undefined,
    geojsonPath |-> <<>>, area_square_miles |-> <<>>, coordinates |-> <<>>,
    vehicleTypes |-> Undefined, platform |-> Undefined, fares |-> Undefined,
    directBooking |-> Undefined, serviceModel |-> Undefined,
    supervision |-> Undefined, access |-> Undefined,
    fleetPartner |-> Undefined, expectedLaunch |-> Undefined,
    notes |-> Undefined ]

\* { isActive: false, status: null } (line 1129)
DefaultState == [EmptyState EXCEPT !.isActive = FALSE, !.status = Null]

NoEntry == [tag |-> "none", ref |-> 0, val |-> EmptyState]
RefEntry(i) == [tag |-> "ref", ref |-> i, val |-> EmptyState]
CopyEntry(state) == [tag |-> "copy", ref |-> 0, val |-> state]

\* the object currentServiceStates.get(serviceId) denotes, read in `all`
Deref(all, entry, default) ==
  CASE entry.tag = "ref"  -> all[entry.ref]
    [] entry.tag = "copy" -> entry.val
    [] OTHER              -> default

\* { ...base, ...transformedData } on the attribute keys
Spread(base, transformedData) ==
  [k \in DOMAIN base |->
     IF k \in AttrKeys /\ transformedData[k] # Undefined
     THEN transformedData[k] ELSE base[k]]

\* The filter written without the serviceId test: the last state without
\* endDate, of whatever service.
LastOpenOfAnyService(all, serviceId) ==
  LET open == {i \in 1..Len(all) : all[i].endDate = <<>>}
  IN  IF open = {} THEN 0 ELSE Max(open)

\* allStates.filter(s => s.serviceId === serviceId).pop(): the last state of
\* the service, closed or not
LastStateOfService(all, serviceId) ==
  LET mine == {i \in 1..Len(all) : all[i].serviceId = serviceId}
  IN  IF mine = {} THEN 0 ELSE Max(mine)

\* allStates.find(s => s.serviceId === serviceId && !s.endDate): the first
\* open state of the service instead of the last
FirstOpenIndex(all, serviceId) ==
  LET open == {i \in 1..Len(all) :
                 all[i].serviceId = serviceId /\ all[i].endDate = <<>>}
  IN  IF open = {} THEN 0 ELSE CHOOSE i \in open : \A j \in open : i <= j

\* allStates.filter(s => s.serviceId === serviceId && !s.endDate).pop(),
\* as an index into allStates; 0 when the filter result is empty
LastOpenIndex(all, serviceId) ==
  LET open == {i \in 1..Len(all) :
                 all[i].serviceId = serviceId /\ all[i].endDate = <<>>}
  IN  IF open = {} THEN 0 ELSE Max(open)

\* if (lastState) { lastState.endDate = eventDate.toISOString() }
CloseLastState(all, last, iso) ==
  IF last = 0 THEN all ELSE [all EXCEPT ![last].endDate = <<iso>>]

\* The guard written on the status alone: an ended service keeps the status
\* of its last state and passes.
IsLiveByStatus(currentState) ==
  currentState.status \in {"testing", "announced", "active"}

\* currentState.isActive || currentState.status === 'testing'
\*                        || currentState.status === 'announced'
IsLive(currentState) ==
  \/ currentState.isActive
  \/ currentState.status = "testing"
  \/ currentState.status = "announced"

\* The comparison made on the Date objects instead of their getTime():
\* two Date objects are never ===.
NeverSameDate(all, last, eventTime) == FALSE

\* lastState && lastStateDate === currentEventDate
SameDate(all, last, eventTime) ==
  last # 0 /\ TimeOfISO(all[last].effectiveDate) = eventTime

----------------------------------------------------------------------------
(* The branches of the for-loop body.  Each takes allStates, the entry of   *)
(* currentServiceStates for the event's service, the event and the geometry *)
(* map, and gives the new allStates and the new entry.                      *)

Outcome(all, entry) == [all |-> all, entry |-> entry]

\* the object literal of a lifecycle branch: spreads first, then the
\* explicit keys, then ...(coordinates && { coordinates })
LifecycleState(prevState, event, gmap, isActive, status) ==
  LET transformedData == TransformEventData(event.event_data)
      geojsonPath == OrPath(transformedData.geojsonPath, event.event_data.geometry_name)
      areaSquareMiles == AreaSquareMiles(gmap, geojsonPath)
      coordinates == ParseInlineCoordinates(geojsonPath)
      eventDate == GetTime(event.event_date)
  IN  [ Spread(prevState, transformedData) EXCEPT
          !.id = <<event.aggregate_id, event.event_date>>,
          !.serviceId = event.aggregate_id,
          !.effectiveDate = ToISOString(eventDate),
          !.lastUpdated = ToISOString(eventDate),
          !.isActive = isActive,
          !.status = status,
          !.geojsonPath = geojsonPath,
          !.area_square_miles = areaSquareMiles,
          !.coordinates = IF coordinates # <<>> THEN coordinates ELSE @ ]

\* lines 1131-1155: the new state takes nothing from an earlier state and no
\* earlier state is closed
ServiceTesting(all, entry, event, gmap) ==
  LET newState == LifecycleState(EmptyState, event, gmap, FALSE, "testing")
  IN  Outcome(Append(all, newState), RefEntry(Len(all) + 1))

\* lines 1157-1192 and 1194-1230: service_announced and service_created
\* differ in isActive and status only
ServiceStarted(all, entry, event, gmap, isActive, status) ==
  LET eventDate == GetTime(event.event_date)
      \* JSON.parse(JSON.stringify(currentServiceStates.get(serviceId) || {}))
      prevState == Deref(all, entry, EmptyState)
      lastState == LastOpenIndex(all, event.aggregate_id)
      closed == CloseLastState(all, lastState, ToISOString(eventDate))
      newState == LifecycleState(prevState, event, gmap, isActive, status)
  IN  Outcome(Append(closed, newState), RefEntry(Len(all) + 1))

ServiceAnnounced(all, entry, event, gmap) ==
  ServiceStarted(all, entry, event, gmap, FALSE, "announced")

ServiceCreated(all, entry, event, gmap) ==
  ServiceStarted(all, entry, event, gmap, TRUE, "active")

\* The end written to the emitted state as well: lastState.isActive = false.
ServiceEndedDeactivating(all, entry, event, gmap) ==
  LET eventDate == GetTime(event.event_date)
      currentState == Deref(all, entry, DefaultState)
  IN  IF currentState.isActive
      THEN LET lastState == LastOpenIndex(all, event.aggregate_id)
               closed == CloseLastState(all, lastState, ToISOString(eventDate))
               ended == IF lastState = 0 THEN closed
                        ELSE [closed EXCEPT ![lastState].isActive = FALSE]
               copy == [Deref(ended, entry, DefaultState) EXCEPT !.isActive = FALSE]
           IN  Outcome(ended, CopyEntry(copy))
      ELSE Outcome(all, entry)

\* lines 1232-1239
ServiceEnded(all, entry, event, gmap) ==
  LET eventDate == GetTime(event.event_date)
      currentState == Deref(all, entry, DefaultState)
  IN  IF currentState.isActive
      THEN LET lastState == LastOpenIndex(all, event.aggregate_id)
               closed == CloseLastState(all, lastState, ToISOString(eventDate))
               \* currentState is read after lastState.endDate was written
               copy == [Deref(closed, entry, DefaultState) EXCEPT !.isActive = FALSE]
           IN  Outcome(closed, CopyEntry(copy))
      ELSE Outcome(all, entry)

\* lines 1241-1285
GeometryUpdated(all, entry, event, gmap) ==
  LET eventDate == GetTime(event.event_date)
      currentState == Deref(all, entry, DefaultState)
  IN  IF IsLive(currentState)
      THEN LET lastState == LastOpenIndex(all, event.aggregate_id)
               newGeojsonPath ==
                 OrPath(event.event_data.geometry_name,
                        OrPath(event.event_data.new_geometry_name,
                               IF lastState # 0 THEN all[lastState].geojsonPath ELSE <<>>))
               areaSquareMiles == AreaSquareMiles(gmap, newGeojsonPath)
               coordinates == ParseInlineCoordinates(newGeojsonPath)
           IN  IF SameDate(all, lastState, eventDate)
               THEN \* same date: update the open state in place
                    Outcome([all EXCEPT ![lastState] =
                               [@ EXCEPT !.geojsonPath = newGeojsonPath,
                                         !.area_square_miles = areaSquareMiles,
                                         !.lastUpdated = ToISOString(eventDate),
                                         !.coordinates = coordinates]],
                            RefEntry(lastState))
               ELSE \* different date: clone currentState, then close lastState
                    LET newState ==
                          [currentState EXCEPT
                             !.id = <<event.aggregate_id, event.event_date>>,
                             !.effectiveDate = ToISOString(eventDate),
                             !.lastUpdated = ToISOString(eventDate),
                             !.geojsonPath = newGeojsonPath,
                             !.area_square_miles = areaSquareMiles,
                             !.coordinates = IF coordinates # <<>> THEN coordinates ELSE @]
                        closed == CloseLastState(all, lastState, ToISOString(eventDate))
                    IN  Outcome(Append(closed, newState), RefEntry(Len(all) + 1))
      ELSE Outcome(all, entry)

\* the list of shouldCreateNewState (line 1289)
AttributeUpdateTypes ==
  { "fares_policy_changed", "access_policy_changed", "vehicle_types_updated",
    "platform_updated", "supervision_updated", "service_model_updated",
    "fleet_partner_changed", "direct_booking_updated" }

\* the list of line 1287
UpdateTypes == {"service_updated"} \cup AttributeUpdateTypes

GeometryUpdateTypes == {"geometry_updated", "Service Area Change"}

\* the key of the state an update kind writes (lines 1299-1315, 1328-1344)
TargetAttribute(eventType) ==
  CASE eventType = "fares_policy_changed"   -> "fares"
    [] eventType = "access_policy_changed"  -> "access"
    [] eventType = "vehicle_types_updated"  -> "vehicleTypes"
    [] eventType = "platform_updated"       -> "platform"
    [] eventType = "supervision_updated"    -> "supervision"
    [] eventType = "service_model_updated"  -> "serviceModel"
    [] eventType = "fleet_partner_changed"  -> "fleetPartner"
    [] eventType = "direct_booking_updated" -> "directBooking"

\* the value it writes
NewValue(event) ==
  LET data == event.event_data
      eventType == event.event_type
  IN  CASE eventType = "fares_policy_changed"   -> data.new_fares
        [] eventType = "access_policy_changed"  -> data.new_access
        [] eventType = "vehicle_types_updated"  -> OrStr(data.new_vehicle_types, data.vehicle_types)
        [] eventType = "platform_updated"       -> data.new_platform
        [] eventType = "supervision_updated"    -> data.new_supervision
        [] eventType = "service_model_updated"  -> data.new_service_model
        [] eventType = "fleet_partner_changed"  -> OrStr(data.new_fleet_partner, data.fleet_partner)
        [] eventType = "direct_booking_updated" -> data.new_direct_booking

\* The new state built as the lifecycle branches build theirs, with the
\* event's payload spread over the clone.
NewStateSpreadingPayload(currentState, event) ==
  LET eventDate == GetTime(event.event_date)
  IN  [Spread(currentState, TransformEventData(event.event_data)) EXCEPT
         !.id = <<event.aggregate_id, event.event_date>>,
         !.effectiveDate = ToISOString(eventDate),
         !.lastUpdated = ToISOString(eventDate),
         ![TargetAttribute(event.event_type)] = NewValue(event)]

\* the object literal of lines 1320-1325 with the field update of lines
\* 1328-1344 applied: a clone of currentState under a new id and date.  The
\* event's payload is read for the new value only.
NewStateForUpdate(currentState, event) ==
  LET eventDate == GetTime(event.event_date)
  IN  [currentState EXCEPT
         !.id = <<event.aggregate_id, event.event_date>>,
         !.effectiveDate = ToISOString(eventDate),
         !.lastUpdated = ToISOString(eventDate),
         ![TargetAttribute(event.event_type)] = NewValue(event)]

\* The open state with the event's payload spread over it, as the
\* lifecycle branches build their states.
UpdatedInPlaceSpreadingPayload(lastState, event) ==
  [Spread(lastState, TransformEventData(event.event_data)) EXCEPT
     ![TargetAttribute(event.event_type)] = NewValue(event),
     !.lastUpdated = ToISOString(GetTime(event.event_date))]

\* lines 1299-1317: the assignments to lastState of the same-date branch
UpdatedInPlace(lastState, event) ==
  [lastState EXCEPT
     ![TargetAttribute(event.event_type)] = NewValue(event),
     !.lastUpdated = ToISOString(GetTime(event.event_date))]

\* lines 1287-1355
AttributeUpdated(all, entry, event, gmap) ==
  LET eventDate == GetTime(event.event_date)
      currentState == Deref(all, entry, DefaultState)
      shouldCreateNewState == event.event_type \in AttributeUpdateTypes
  IN  IF IsLive(currentState) /\ shouldCreateNewState
      THEN LET lastState == LastOpenIndex(all, event.aggregate_id)
           IN  IF SameDate(all, lastState, eventDate)
               THEN \* same date: update the open state in place
                    Outcome([all EXCEPT ![lastState] = UpdatedInPlace(@, event)],
                            RefEntry(lastState))
               ELSE \* different date: clone currentState, then close lastState
                    LET newState == NewStateForUpdate(currentState, event)
                        closed == CloseLastState(all, lastState, ToISOString(eventDate))
                    IN  Outcome(Append(closed, newState), RefEntry(Len(all) + 1))
      ELSE Outcome(all, entry)

\* one iteration of the for-loop (lines 1126-1356): the if / else-if chain on
\* event.event_type; an event type no branch names falls through
LoopBody(all, entry, event, gmap) ==
  CASE event.event_type = "service_testing"      -> ServiceTesting(all, entry, event, gmap)
    [] event.event_type = "service_announced"    -> ServiceAnnounced(all, entry, event, gmap)
    [] event.event_type = "service_created"      -> ServiceCreated(all, entry, event, gmap)
    [] event.event_type = "service_ended"        -> ServiceEnded(all, entry, event, gmap)
    [] event.event_type \in GeometryUpdateTypes  -> GeometryUpdated(all, entry, event, gmap)
    [] event.event_type \in UpdateTypes          -> AttributeUpdated(all, entry, event, gmap)
    [] OTHER                                     -> Outcome(all, entry)

\* lines 1360-1364
DefaultStatus(all) ==
  [i \in 1..Len(all) |->
     IF all[i].status \in {Undefined, Null}
     THEN [all[i] EXCEPT !.status = IF all[i].endDate # <<>> THEN "ended" ELSE "active"]
     ELSE all[i]]

----------------------------------------------------------------------------
(* The stable sort of line 1122: Array.prototype.sort keeps the input order *)
(* of events the comparator calls equal.                                    *)

\* e goes behind every event of the sorted list whose time is <= its own
InsertByDate(sorted, e) ==
  LET before == {i \in 1..Len(sorted) :
                   GetTime(sorted[i].event_date) <= GetTime(e.event_date)}
      k == IF before = {} THEN 0 ELSE Max(before)
  IN  SubSeq(sorted, 1, k) \o <<e>> \o SubSeq(sorted, k + 1, Len(sorted))

RECURSIVE SortEvents(_)
SortEvents(list) ==
  IF list = <<>> THEN <<>>
  ELSE InsertByDate(SortEvents(SubSeq(list, 1, Len(list) - 1)), list[Len(list)])

----------------------------------------------------------------------------
(* The whole loop as a function of the list it runs over: the allStates and *)
(* the currentServiceStates the for-loop of lines 1126-1356 has built after *)
(* the events of `list`, in that order.                                     *)

RECURSIVE Project(_, _)
Project(list, gmap) ==
  IF list = <<>>
  THEN [all |-> <<>>, cur |-> [s \in Services |-> NoEntry]]
  ELSE LET before == Project(SubSeq(list, 1, Len(list) - 1), gmap)
           event == list[Len(list)]
           out == LoopBody(before.all, before.cur[event.aggregate_id], event, gmap)
       IN  [all |-> out.all,
            cur |-> [before.cur EXCEPT ![event.aggregate_id] = out.entry]]

----------------------------------------------------------------------------
(* Inputs *)

\* geometry references: boundary files and an inline "lng,lat" literal
GeoFileA == <<"g", "a">>
GeoFileB == <<"g", "b">>
GeoPoint == <<"-", "1", ".", "5", "0", ",", "2">>

\* The geometry map rebuildCache builds: GeoFileA is loaded; GeoFileB is not
\* (its fetch failed), and no geometry is named like an inline literal.
LoadedGeometries == (GeoFileA :> 1250)

Dates == 1..MaxDate

\* the dates the next event of a date-ordered input can carry: the day of the
\* event before it, or the day after
NextDates ==
  IF events = <<>> THEN {1}
  ELSE {events[Len(events)].event_date, events[Len(events)].event_date + 1} \cap Dates

ServiceA == "acme-springfield"
ServiceB == "zeta-shelbyville"

TestingData ==
  [NoData EXCEPT !.platform = "TestApp", !.supervision = "Safety Driver",
                 !.geometry_name = GeoFileA]
AnnouncedData ==
  [NoData EXCEPT !.platform = "BetaApp", !.expected_launch = "2025"]
CreatedData ==
  [NoData EXCEPT !.vehicle_types = "ModelX", !.fares = "No",
                 !.supervision = "Autonomous"]

Fares(v) == [NoData EXCEPT !.new_fares = v]
Access(v) == [NoData EXCEPT !.new_access = v]
Vehicles(v) == [NoData EXCEPT !.new_vehicle_types = v]
Platform(v) == [NoData EXCEPT !.new_platform = v]
\* what csvRowToEvent makes of an access_policy_changed row whose fares
\* column is filled too: the column that is not being updated goes into the
\* payload under its own name (lines 438-453)
AccessRow == [NoData EXCEPT !.new_access = "Public", !.fares = "Yes"]
Geometry(g) == [NoData EXCEPT !.geometry_name = g]

\* Lifecycle events of every kind for one service, with the update kinds and
\* a second service next to them
Alphabet ==
  {Event(ServiceA, d, "service_testing", TestingData) : d \in Dates}
  \cup {Event(ServiceA, d, "service_announced", AnnouncedData) : d \in Dates}
  \cup {Event(s, d, "service_created", CreatedData) : s \in Services, d \in Dates}
  \cup {Event(s, d, "service_ended", NoData) : s \in Services, d \in Dates}
  \cup {Event(s, d, "fares_policy_changed", Fares("Yes")) : s \in Services, d \in Dates}
  \cup {Event(ServiceA, d, "geometry_updated", Geometry(GeoFileB)) : d \in Dates}

\* One service and the update kinds: attribute updates that change a value
\* and that repeat it, one whose payload names a second attribute, and
\* geometry updates to a file and to a point
UpdateAlphabet ==
  {Event(ServiceA, d, "service_created", CreatedData) : d \in Dates}
  \cup {Event(ServiceA, d, "service_testing", TestingData) : d \in Dates}
  \cup {Event(ServiceA, d, "service_ended", NoData) : d \in Dates}
  \cup {Event(ServiceA, d, "fares_policy_changed", Fares(v)) :
          d \in Dates, v \in {"Yes", "No"}}
  \cup {Event(ServiceA, d, "access_policy_changed", AccessRow) : d \in Dates}
  \cup {Event(ServiceA, d, "vehicle_types_updated", Vehicles("ModelX;ModelY")) :
          d \in Dates}
  \cup {Event(ServiceA, d, "geometry_updated", Geometry(g)) :
          d \in Dates, g \in {GeoFileA, GeoPoint}}

\* One service and the updates of its multi-value attributes: lists that
\* extend the list held and lists that share nothing with it
ReplaceAlphabet ==
  {Event(ServiceA, d, "service_testing", TestingData) : d \in Dates}
  \cup {Event(ServiceA, d, "service_created", CreatedData) : d \in Dates}
  \cup {Event(ServiceA, d, "service_ended", NoData) : d \in Dates}
  \cup {Event(ServiceA, d, "vehicle_types_updated", Vehicles(v)) :
          d \in Dates, v \in {"ModelX;ModelY", "ModelZ"}}
  \cup {Event(ServiceA, d, "platform_updated", Platform(v)) :
          d \in Dates, v \in {"TestApp;Partner App", "NewApp"}}

\* The literal scenario of the specification, section 8
ScenarioEvents ==
  << Event(ServiceA, 20240101, "service_testing",
           [NoData EXCEPT !.platform = "TestApp"]),
     Event(ServiceA, 20240301, "service_created",
           [NoData EXCEPT !.vehicle_types = "ModelX", !.fares = "No",
                          !.access = "Waitlist"]),
     Event(ServiceA, 20240301, "access_policy_changed", Access("Public")),
     Event(ServiceA, 20240601, "fares_policy_changed", Fares("Yes")),
     Event(ServiceA, 20250101, "service_ended", NoData) >>

\* the scenario's events in every input order
ScenarioInputs ==
  {[i \in 1..Len(ScenarioEvents) |-> ScenarioEvents[p[i]]] :
     p \in {q \in [1..Len(ScenarioEvents) -> 1..Len(ScenarioEvents)] :
              \A i, j \in 1..Len(ScenarioEvents) : i # j => q[i] # q[j]}}

----------------------------------------------------------------------------
(* The state machine *)

\* what the bucket holds before any rebuild: the all-data.json of an earlier
\* run and no backup
OldCache == [generated_by |-> "an earlier run"]
BucketBefore == [main |-> <<OldCache>>, backups |-> <<>>]

\* the function from nothing
EmptyMap == [f \in {} |-> <<>>]

\* the map with k set to v, and the map without the keys of S
Put(map, k, v) == [x \in DOMAIN map \cup {k} |-> IF x = k THEN v ELSE map[x]]
Without(map, S) == [x \in DOMAIN map \ S |-> map[x]]

\* rebuild-cache.js has not been started
CacheNotRun ==
  /\ isStaging = FALSE
  /\ geometriesMeta = <<>>
  /\ geometriesWithData = <<>>
  /\ cacheData = <<>>
  /\ storage = BucketBefore
  /\ rebuildError = Undefined
  /\ rpc = "off"
  /\ inFlight = {}
  /\ batchResults = <<>>
  /\ pendingJson = EmptyMap

\* neither sync-geometries-table.js nor upload-geometries.js has been started
SyncNotRun ==
  /\ geojsonFiles = <<>>
  /\ existingNames = {}
  /\ existingUrlMap = EmptyMap
  /\ fileIndex = 0
  /\ syncFailed = 0
  /\ localFileSet = <<>>
  /\ spc = "off"

UploadNotRun ==
  /\ localFiles = <<>>
  /\ existingFileNames = {}
  /\ uploadIndex = 0
  /\ uploaded = 0
  /\ skipped = 0
  /\ uploadFailed = 0
  /\ requests = <<>>
  /\ upc = "off"

ImportNotRun ==
  /\ importRecords = <<>>
  /\ importEvents = <<>>
  /\ eventsTable = <<>>
  /\ imported = 0
  /\ tableRequests = <<>>
  /\ ipc = "off"

StagingNotRun ==
  /\ prodEventsTable = <<>>
  /\ prodGeometryTable = EmptyMap
  /\ prodBucket = EmptyMap
  /\ prodEvents = <<>>
  /\ prodGeometries = EmptyMap
  /\ pendingCalls = {}
  /\ callFailed = FALSE
  /\ copyFiles = <<>>
  /\ copyIndex = 0
  /\ fileData = <<>>
  /\ failCount = 0
  /\ tpc = "off"

ToolsNotRun ==
  /\ geometryTable = EmptyMap
  /\ geometryBucket = EmptyMap
  /\ localFolder = [readable |-> TRUE, files |-> EmptyMap]
  /\ apiFailure = FALSE
  /\ SyncNotRun
  /\ UploadNotRun
  /\ ImportNotRun
  /\ StagingNotRun

\* validate-csv.js has not been started
ValidatorNotRun ==
  /\ records = <<>>
  /\ serviceEvents = <<>>
  /\ timeline = 0
  /\ eventIndex = 0
  /\ timelineState = <<>>
  /\ hasServiceCreated = FALSE
  /\ ERRORS = <<>>
  /\ WARNINGS = <<>>
  /\ isValid = Undefined
  /\ vpc = "off"

InitEngine ==
  /\ allStates = <<>>
  /\ currentServiceStates = [s \in Services |-> NoEntry]
  /\ geometryMap = LoadedGeometries
  /\ idx = 0

\* the loop body applied to `event`
Step(event) ==
  LET serviceId == event.aggregate_id
      out == LoopBody(allStates, currentServiceStates[serviceId], event, geometryMap)
  IN  /\ allStates' = out.all
      /\ currentServiceStates' = [currentServiceStates EXCEPT ![serviceId] = out.entry]

\* The caller hands over events ordered by event_date (rebuildCache, line
\* 891).  The list is read one event at a time: sortedEvents is the sort of
\* what has been read, and the iteration processes its next element.
ReadAndProcess(alphabet) ==
  /\ pc = "loop"
  /\ idx = Len(sortedEvents)
  /\ idx < MaxEvents
  /\ \E event \in alphabet :
       /\ event.event_date \in NextDates
       /\ events' = Append(events, event)
       /\ sortedEvents' = SortEvents(events')
       /\ idx' = idx + 1
       /\ Step(sortedEvents'[idx'])
  /\ UNCHANGED <<geometryMap, pc, returned>>
  /\ UNCHANGED <<validatorVars, cacheVars, toolVars>>

Init ==
  /\ events = <<>>
  /\ sortedEvents = <<>>
  /\ pc = "loop"
  /\ returned = <<>>
  /\ InitEngine
  /\ ValidatorNotRun
  /\ CacheNotRun
  /\ ToolsNotRun

Iterate == ReadAndProcess(Alphabet)

IterateUpdates == ReadAndProcess(UpdateAlphabet)

\* after the last event: the default-status pass and the return
Return ==
  /\ pc = "loop"
  /\ idx = Len(sortedEvents)
  /\ allStates' = DefaultStatus(allStates)
  /\ returned' = Append(returned, allStates')
  /\ pc' = "done"
  /\ UNCHANGED <<events, sortedEvents, idx, currentServiceStates, geometryMap>>
  /\ UNCHANGED <<validatorVars, cacheVars, toolVars>>

Next == Iterate \/ Return

Spec == Init /\ [][Next]_vars

NextUpdates == IterateUpdates \/ Return

IterateReplace == ReadAndProcess(ReplaceAlphabet)

NextReplace == IterateReplace \/ Return

SpecReplace == Init /\ [][NextReplace]_vars

SpecUpdates == Init /\ [][NextUpdates]_vars

\* The function called on a whole list, here the scenario in any input order:
\* the sort of line 1122, then one iteration per event, then the return.
InitScenario ==
  /\ events \in ScenarioInputs
  /\ sortedEvents = <<>>
  /\ pc = "sort"
  /\ returned = <<>>
  /\ InitEngine
  /\ ValidatorNotRun
  /\ CacheNotRun
  /\ ToolsNotRun

\* [...events].sort(...): the sort acts on a copy of the caller's array,
\* which keeps its order
Sort ==
  /\ pc = "sort"
  /\ sortedEvents' = SortEvents(events)
  /\ pc' = "loop"
  /\ UNCHANGED <<events, idx, allStates, currentServiceStates, geometryMap, returned>>
  /\ UNCHANGED <<validatorVars, cacheVars, toolVars>>

\* The object transformEventData was handed, after the call: the function
\* makes const transformed = { ...eventData } (line 1067), and its
\* assignments and deletes (lines 1070-1101) are made on that copy.
ArgumentAfterTransform(eventData) == eventData

\* The event object after the iteration that processed it: the three
\* lifecycle branches that build a state hand event.event_data to
\* transformEventData (lines 1132, 1158, 1195); every other use of event in
\* the loop body is a read.
EventAfterIteration(event) ==
  IF event.event_type \in {"service_testing", "service_announced", "service_created"}
  THEN [event EXCEPT !.event_data = ArgumentAfterTransform(@)]
  ELSE event

\* [...events] (line 1122) is a new array of the caller's event objects,
\* which the sort moves: the object at place k of sortedEvents is the one at
\* this place of events.
PlaceInInput(list, k) ==
  CHOOSE i \in 1..Len(list) :
    Cardinality({j \in 1..Len(list) :
                   \/ GetTime(list[j].event_date) < GetTime(list[i].event_date)
                   \/ /\ GetTime(list[j].event_date) = GetTime(list[i].event_date)
                      /\ j < i}) = k - 1

\* An iteration that stops the loop at an event of a kind no branch names.
IterateListUntilUnknown ==
  /\ pc = "loop"
  /\ idx < Len(sortedEvents)
  /\ sortedEvents[idx + 1].event_type # "service_paused"
  /\ Step(sortedEvents[idx + 1])
  /\ idx' = idx + 1
  /\ sortedEvents' = [sortedEvents EXCEPT ![idx + 1] = EventAfterIteration(@)]
  /\ events' = [events EXCEPT ![PlaceInInput(events, idx + 1)] =
                                EventAfterIteration(sortedEvents[idx + 1])]
  /\ UNCHANGED <<geometryMap, pc, returned>>
  /\ UNCHANGED <<validatorVars, cacheVars, toolVars>>

\* One iteration of the for-loop on the sorted array. The event it
\* processes is an object the caller's array holds too, so what the
\* iteration leaves in it is what a later call finds; geometryMap is only
\* read (geometryMap.get).
IterateList ==
  /\ pc = "loop"
  /\ idx < Len(sortedEvents)
  /\ Step(sortedEvents[idx + 1])
  /\ idx' = idx + 1
  /\ sortedEvents' = [sortedEvents EXCEPT ![idx + 1] = EventAfterIteration(@)]
  /\ events' = [events EXCEPT ![PlaceInInput(events, idx + 1)] =
                                EventAfterIteration(sortedEvents[idx + 1])]
  /\ UNCHANGED <<geometryMap, pc, returned>>
  /\ UNCHANGED <<validatorVars, cacheVars, toolVars>>

NextScenario == Sort \/ IterateList \/ Return

SpecScenario == InitScenario /\ [][NextScenario]_vars

\* Event lists in arbitrary input order: one service that is created, has
\* its fares changed and is ended, on two days
UnorderedAlphabet ==
  {Event(ServiceA, d, "service_created", CreatedData) : d \in {1, 2}}
  \cup {Event(ServiceA, d, "service_ended", NoData) : d \in {1, 2}}
  \cup {Event(ServiceA, d, "fares_policy_changed", Fares(v)) :
          d \in {1, 2}, v \in {"Yes", "No"}}

\* a service that is ended and created again, with two fares changes on the
\* day it is created again
RecreatedEvents ==
  << Event(ServiceA, 1, "service_created", CreatedData),
     Event(ServiceA, 1, "service_ended", NoData),
     Event(ServiceA, 2, "service_created", CreatedData),
     Event(ServiceA, 2, "fares_policy_changed", Fares("Yes")),
     Event(ServiceA, 2, "fares_policy_changed", Fares("No")) >>

Permutations5 ==
  {q \in [1..5 -> 1..5] : \A i, j \in 1..5 : i # j => q[i] # q[j]}

UnorderedInputs ==
  UNION {[1..n -> UnorderedAlphabet] : n \in 0..MaxList}
  \cup {[i \in 1..5 |-> RecreatedEvents[p[i]]] : p \in Permutations5}

InitUnordered ==
  /\ events \in UnorderedInputs
  /\ sortedEvents = <<>>
  /\ pc = "sort"
  /\ returned = <<>>
  /\ InitEngine
  /\ ValidatorNotRun
  /\ CacheNotRun
  /\ ToolsNotRun

\* const allStates = [] with the contents of an allStates that outlived the
\* call before: a list kept at module level
KeptStates(all) == all

\* const allStates = [] (line 1120): every call starts from an empty list,
\* whatever the call before has built
FreshStates(all) ==
  <<>>

\* The function is called once more with the event array and the geometry
\* map of the call before, as that call has left them: lines 1119-1120 make
\* its locals anew.
CallAgain ==
  /\ pc = "done"
  /\ Len(returned) < MaxCalls
  /\ allStates' = FreshStates(allStates)
  /\ currentServiceStates' = [s \in Services |-> NoEntry]
  /\ sortedEvents' = <<>>
  /\ idx' = 0
  /\ pc' = "sort"
  /\ UNCHANGED <<events, geometryMap, returned>>
  /\ UNCHANGED <<validatorVars, cacheVars, toolVars>>

\* Event lists of every kind, a kind no branch names among them, for two
\* services, in any order
MixedAlphabet ==
  {Event(ServiceA, d, "service_created", CreatedData) : d \in {1, 2}}
  \cup {Event(s, 2, "service_ended", NoData) : s \in Services}
  \cup { Event(ServiceB, 1, "service_created", CreatedData),
         Event(ServiceA, 1, "service_testing", TestingData),
         Event(ServiceA, 1, "service_announced", AnnouncedData),
         Event(ServiceA, 2, "fares_policy_changed", Fares("Yes")),
         Event(ServiceA, 2, "geometry_updated", Geometry(GeoPoint)),
         Event(ServiceA, 1, "service_paused", NoData) }

MixedInputs == UNION {[1..n -> MixedAlphabet] : n \in 0..MaxMixed}

InitMixed ==
  /\ events \in MixedInputs
  /\ sortedEvents = <<>>
  /\ pc = "sort"
  /\ returned = <<>>
  /\ InitEngine
  /\ ValidatorNotRun
  /\ CacheNotRun
  /\ ToolsNotRun

\* The function runs without a pause: the sort, the iterations and the return
\* follow each other in one synchronous call, so each is taken when it can be.
SpecMixed == InitMixed /\ [][NextScenario]_vars /\ WF_vars(NextScenario)

NextUnordered == Sort \/ IterateList \/ Return \/ CallAgain

SpecUnordered == InitUnordered /\ [][NextUnordered]_vars

----------------------------------------------------------------------------
(* validate-csv.js                                                          *)
(*                                                                          *)
(* A row is what csv-parse returns with columns: true and trim: true: every *)
(* column a trimmed string, "" when the cell is empty.  The date is a day   *)
(* number (0 for an empty cell), geometry_file is the sequence of the       *)
(* pieces of its text (<<>> for an empty cell), and fieldCount is           *)
(* Object.keys(row).length.  A diagnostic is kept as its line number and    *)
(* the fixed part of its message.                                           *)

EXPECTED_FIELD_COUNT == 18

NoRow ==
  [ date |-> 0, event_type |-> "", company |-> "", city |-> "",
    geometry_file |-> <<>>, vehicles |-> "", platform |-> "", fares |-> "",
    direct_booking |-> "", service_model |-> "", supervision |-> "",
    access |-> "", fleet_partner |-> "", expected_launch |-> "",
    company_link |-> "", booking_platform_link |-> "", source_url |-> "",
    notes |-> "", fieldCount |-> EXPECTED_FIELD_COUNT ]

Msg(lineNum, message) == [lineNum |-> lineNum, message |-> message]

\* the message m if the condition holds, nothing otherwise
When(condition, m) == IF condition THEN <<m>> ELSE <<>>

\* the cell texts of the inputs that start with http:// or https://
HttpTexts == {"https://acme.example/av", "http://zeta.example"}
StartsWithHttp(text) == text \in HttpTexts

\* company.toLowerCase().replace(/\s+/g, '-'), on the names of the inputs
Slug(name) ==
  CASE name = "Acme"        -> "acme"
    [] name = "ACME"        -> "acme"
    [] name = "Springfield" -> "springfield"
    [] name = "Zeta"        -> "zeta"
    [] name = "Shelbyville" -> "shelbyville"

\* `${company...}-${city...}` (validate-csv.js line 75, import-csv line 382)
ServiceIdOf(company, city) == Slug(company) \o "-" \o Slug(city)

\* the checks of validateCSVStructure on one row (lines 128-179)
RowStructure(row, lineNum) ==
  LET eventType == row.event_type
      isCreateOrAnnounce ==
        eventType \in {"service_created", "service_announced", "service_testing"}
      launchKind == eventType \in {"service_announced", "service_testing"}
  IN  [ errors |->
          When(row.fieldCount # EXPECTED_FIELD_COUNT, Msg(lineNum, "field count"))
          \o When(row.company_link # "" /\ ~StartsWithHttp(row.company_link),
                  Msg(lineNum, "company_link should be a URL or empty"))
          \o When(row.booking_platform_link # "" /\ ~StartsWithHttp(row.booking_platform_link),
                  Msg(lineNum, "booking_platform_link should be a URL or empty"))
          \o When(row.notes # "" /\ StartsWithHttp(row.notes),
                  Msg(lineNum, "notes field contains a URL"))
          \o When(eventType # "" /\ launchKind /\ row.expected_launch # ""
                    /\ StartsWithHttp(row.expected_launch),
                  Msg(lineNum, "expected_launch contains a URL")),
        warnings |->
          When(isCreateOrAnnounce /\ row.source_url # "" /\ ~StartsWithHttp(row.source_url),
               Msg(lineNum, "source_url should be a URL"))
          \o When(eventType # "" /\ ~launchKind /\ row.expected_launch # "",
                  Msg(lineNum, "expected_launch should be empty")) ]

\* validateCSVStructure: the diagnostics of the rows, in row order
RECURSIVE ValidateCSVStructure(_)
ValidateCSVStructure(rows) ==
  IF rows = <<>> THEN [errors |-> <<>>, warnings |-> <<>>]
  ELSE LET before == ValidateCSVStructure(SubSeq(rows, 1, Len(rows) - 1))
           \* +2 for header row and 0-indexing
           here == RowStructure(rows[Len(rows)], Len(rows) + 1)
       IN  [errors |-> before.errors \o here.errors,
            warnings |-> before.warnings \o here.warnings]

\* the position of a service in the list of groups; 0 if it has none
GroupOf(groups, serviceId) ==
  LET at == {g \in 1..Len(groups) : groups[g].serviceId = serviceId}
  IN  IF at = {} THEN 0 ELSE Max(at)

\* records.forEach of lines 64-86: the rows grouped by service in the order
\* the services first occur (a Map iterates in insertion order), and the
\* errors of the rows that lack company, city or date
RECURSIVE GroupRecordsUntilMissing(_)
GroupRecordsUntilMissing(rows) ==
  IF rows = <<>> THEN [groups |-> <<>>, errors |-> <<>>]
  ELSE LET before == GroupRecordsUntilMissing(SubSeq(rows, 1, Len(rows) - 1))
           row == rows[Len(rows)]
           lineNum == Len(rows) + 1
       IN  IF before.errors # <<>> THEN before
           ELSE IF row.company = "" \/ row.city = "" \/ row.date = 0
           THEN [before EXCEPT !.errors = Append(@, Msg(lineNum, "Missing required fields"))]
           ELSE LET serviceId == ServiceIdOf(row.company, row.city)
                    event == [row |-> row, lineNum |-> lineNum, serviceId |-> serviceId]
                    g == GroupOf(before.groups, serviceId)
                IN  IF g = 0
                    THEN [before EXCEPT !.groups =
                            Append(@, [serviceId |-> serviceId, events |-> <<event>>])]
                    ELSE [before EXCEPT !.groups[g].events = Append(@, event)]

RECURSIVE GroupRecords(_)
GroupRecords(rows) ==
  IF rows = <<>> THEN [groups |-> <<>>, errors |-> <<>>]
  ELSE LET before == GroupRecords(SubSeq(rows, 1, Len(rows) - 1))
           row == rows[Len(rows)]
           lineNum == Len(rows) + 1
       IN  IF row.company = "" \/ row.city = "" \/ row.date = 0
           THEN [before EXCEPT !.errors = Append(@, Msg(lineNum, "Missing required fields"))]
           ELSE LET serviceId == ServiceIdOf(row.company, row.city)
                    event == [row |-> row, lineNum |-> lineNum, serviceId |-> serviceId]
                    g == GroupOf(before.groups, serviceId)
                IN  IF g = 0
                    THEN [before EXCEPT !.groups =
                            Append(@, [serviceId |-> serviceId, events |-> <<event>>])]
                    ELSE [before EXCEPT !.groups[g].events = Append(@, event)]

\* events.sort((a, b) => new Date(a.date) - new Date(b.date)), stable
InsertRowByDate(sorted, e) ==
  LET before == {i \in 1..Len(sorted) : GetTime(sorted[i].row.date) <= GetTime(e.row.date)}
      k == IF before = {} THEN 0 ELSE Max(before)
  IN  SubSeq(sorted, 1, k) \o <<e>> \o SubSeq(sorted, k + 1, Len(sorted))

RECURSIVE SortRows(_)
SortRows(list) ==
  IF list = <<>> THEN <<>>
  ELSE InsertRowByDate(SortRows(SubSeq(list, 1, Len(list) - 1)), list[Len(list)])

\* a geometry_file cell that is undefined / null on the tracked state
UndefinedFile == <<Undefined>>
NullFile == <<Null>>

\* const currentState = {}
NoTimelineState ==
  [ platform |-> Undefined, fares |-> Undefined, access |-> Undefined,
    supervision |-> Undefined, service_model |-> Undefined,
    vehicles |-> Undefined, fleet_partner |-> Undefined,
    geometry_file |-> UndefinedFile, status |-> Undefined ]

\* text || null
OrNull(text) == IF text # "" THEN text ELSE Null

YearTexts == {"2017", "2018", "2019", "2020", "2021", "2022", "2023", "2024", "2025"}

\* validateGeometryFilename (lines 376-409) on the pieces of the file name
ValidateGeometryFilename(lineNum, filename, serviceId) ==
  LET pieces == {filename[i] : i \in 1..Len(filename)}
  IN  IF ParseInlineCoordinates(filename) # <<>>
      THEN [errors |-> <<>>, warnings |-> <<>>]
      ELSE IF filename[Len(filename)] # ".geojson"
      THEN [errors |-> <<Msg(lineNum, "Geometry file must end with .geojson")>>,
            warnings |-> <<>>]
      ELSE [errors |-> <<>>,
            warnings |->
              When(filename[1] # serviceId,
                   Msg(lineNum, "Geometry filename doesn't start with expected service ID"))
              \o When(pieces \cap YearTexts = {},
                      Msg(lineNum, "Geometry filename doesn't contain a year"))
              \o When("boundary" \notin pieces,
                      Msg(lineNum, "Geometry filename should include 'boundary'"))]

NoDiagnostics == [errors |-> <<>>, warnings |-> <<>>]

\* what one visit of the forEach of validateServiceTimeline leaves behind
Visit(state, created, errors, warnings) ==
  [state |-> state, created |-> created, errors |-> errors, warnings |-> warnings]

\* the update kinds validateServiceTimeline names (lines 226-308) and the
\* column each of them reads and tracks
TrackedUpdateTypes ==
  { "platform_updated", "fares_policy_changed", "access_policy_changed",
    "supervision_updated", "service_model_updated", "vehicle_types_updated",
    "fleet_partner_changed" }

UpdatedColumn(eventType) ==
  CASE eventType = "platform_updated"      -> "platform"
    [] eventType = "fares_policy_changed"  -> "fares"
    [] eventType = "access_policy_changed" -> "access"
    [] eventType = "supervision_updated"   -> "supervision"
    [] eventType = "service_model_updated" -> "service_model"
    [] eventType = "vehicle_types_updated" -> "vehicles"
    [] eventType = "fleet_partner_changed" -> "fleet_partner"

\* the branch of a redundant update calls error(); for vehicle_types_updated
\* (line 291) it calls warn()
RedundantIsError(eventType) ==
  eventType # "vehicle_types_updated"

\* lines 226-308: one of the seven branches that differ in the column only
TrackedUpdate(state, created, event) ==
  LET column == UpdatedColumn(event.row.event_type)
      newValue == event.row[column]
  IN  IF newValue = ""
      THEN Visit(state, created, <<Msg(event.lineNum, "event has no value")>>, <<>>)
      ELSE IF state[column] = newValue
      THEN IF RedundantIsError(event.row.event_type)
           THEN Visit(state, created, <<Msg(event.lineNum, "REDUNDANT")>>, <<>>)
           ELSE Visit(state, created, <<>>, <<Msg(event.lineNum, "might be redundant")>>)
      ELSE Visit([state EXCEPT ![column] = newValue], created, <<>>, <<>>)

\* lines 310-324
GeometryFileUpdated(state, created, event) ==
  LET newValue == event.row.geometry_file
      named == ValidateGeometryFilename(event.lineNum, newValue, event.serviceId)
  IN  IF newValue = <<>>
      THEN Visit(state, created, <<Msg(event.lineNum, "event has no value")>>, <<>>)
      ELSE IF state.geometry_file = newValue
      THEN Visit(state, created, named.errors,
                 <<Msg(event.lineNum, "might be redundant")>> \o named.warnings)
      ELSE Visit([state EXCEPT !.geometry_file = newValue], created,
                 named.errors, named.warnings)

\* lines 201-223
TimelineCreated(state, created, event) ==
  LET row == event.row
      named == IF row.geometry_file # <<>>
               THEN ValidateGeometryFilename(event.lineNum, row.geometry_file, event.serviceId)
               ELSE NoDiagnostics
  IN  Visit([state EXCEPT !.platform = OrNull(row.platform),
                          !.fares = OrNull(row.fares),
                          !.access = OrNull(row.access),
                          !.supervision = OrNull(row.supervision),
                          !.service_model = OrNull(row.service_model),
                          !.vehicles = OrNull(row.vehicles),
                          !.fleet_partner = OrNull(row.fleet_partner),
                          !.geometry_file = IF row.geometry_file # <<>>
                                            THEN row.geometry_file ELSE NullFile],
            TRUE,
            named.errors,
            named.warnings \o When(row.platform = "", Msg(event.lineNum, "has no platform")))

\* if (event.column) currentState.column = event.column.trim()
Provided(state, row, columns) ==
  [k \in DOMAIN state |-> IF k \in columns /\ row[k] # "" THEN row[k] ELSE state[k]]

\* A start event taken over whether or not service_created came before.
TimelineStartedAnyTime(state, created, event, status, columns) ==
  LET row == event.row
      named == IF row.geometry_file # <<>>
               THEN ValidateGeometryFilename(event.lineNum, row.geometry_file, event.serviceId)
               ELSE NoDiagnostics
  IN  Visit([Provided(state, row, columns) EXCEPT
               !.status = status,
               !.geometry_file = IF row.geometry_file # <<>>
                                 THEN row.geometry_file ELSE @],
            created, named.errors, named.warnings)

\* lines 326-361: service_testing and service_announced differ in the status
\* and in the columns they take over
TimelineStarted(state, created, event, status, columns) ==
  LET row == event.row
      named == IF row.geometry_file # <<>>
               THEN ValidateGeometryFilename(event.lineNum, row.geometry_file, event.serviceId)
               ELSE NoDiagnostics
  IN  IF created
      THEN Visit(state, created,
                 <<Msg(event.lineNum, "cannot occur after service_created")>>, <<>>)
      ELSE Visit([Provided(state, row, columns) EXCEPT
                    !.status = status,
                    !.geometry_file = IF row.geometry_file # <<>>
                                      THEN row.geometry_file ELSE @],
                 created, named.errors, named.warnings)

\* The first-event check left out.
NoFirstEventCheck(index, eventType) ==
  FALSE

\* index === 0 && ![...].includes(event_type)  (line 196)
FirstEventRejected(index, eventType) ==
  index = 0 /\ eventType \notin {"service_created", "service_testing", "service_announced"}

\* the callback of events.forEach (lines 192-370) for the event at `index`
TimelineEvent(state, created, event, index) ==
  LET eventType == event.row.event_type
  IN  IF FirstEventRejected(index, eventType)
      THEN Visit(state, created, <<Msg(event.lineNum, "First event must be a start")>>, <<>>)
      ELSE CASE eventType = "service_created" -> TimelineCreated(state, created, event)
             [] eventType \in TrackedUpdateTypes -> TrackedUpdate(state, created, event)
             [] eventType = "geometry_updated" -> GeometryFileUpdated(state, created, event)
             [] eventType = "service_testing" ->
                  TimelineStarted(state, created, event, "testing",
                                  {"vehicles", "platform", "supervision"})
             [] eventType = "service_announced" ->
                  TimelineStarted(state, created, event, "announced",
                                  {"vehicles", "platform", "supervision", "fares",
                                   "access", "service_model"})
             [] eventType = "service_ended" -> Visit(state, created, <<>>, <<>>)
             [] OTHER ->
                  Visit(state, created, <<>>, <<Msg(event.lineNum, "Unknown event type")>>)

\* The rows of the inputs: one service with every tracked column filled, its
\* start events, an update of every kind that repeats the value the
\* service_created row gave, a true change, kinds the validator does not
\* name, a second service, and a row without city.
BoundaryFile == <<"acme-springfield", "-", "2024", "-", "boundary", ".geojson">>

\* a file name that does not end with .geojson
SketchFile == <<"sketch", ".kml">>

RowOf(company, city, date, eventType) ==
  [NoRow EXCEPT !.company = company, !.city = city, !.date = date,
                !.event_type = eventType]

AcmeRow(date, eventType) == RowOf("Acme", "Springfield", date, eventType)
ZetaRow(date, eventType) == RowOf("Zeta", "Shelbyville", date, eventType)

CreatedRow ==
  [AcmeRow(1, "service_created") EXCEPT
     !.platform = "App", !.fares = "No", !.access = "Public",
     !.supervision = "Autonomous", !.service_model = "Flexible",
     !.vehicles = "ModelX", !.fleet_partner = "Moove",
     !.geometry_file = BoundaryFile]

\* the update row of a kind, with the value CreatedRow has in its column
RepeatingRow(eventType) ==
  [AcmeRow(2, eventType) EXCEPT
     ![UpdatedColumn(eventType)] = CreatedRow[UpdatedColumn(eventType)]]

ValidatorRows ==
  {CreatedRow}
  \cup {[AcmeRow(d, "service_testing") EXCEPT !.platform = "TestApp", !.vehicles = "ModelX"] :
          d \in {1, 2}}
  \cup {[AcmeRow(2, "service_announced") EXCEPT !.fares = "No"]}
  \cup {RepeatingRow(t) : t \in TrackedUpdateTypes}
  \cup {[AcmeRow(2, "geometry_updated") EXCEPT !.geometry_file = f] :
          f \in {BoundaryFile, SketchFile}}
  \cup {[AcmeRow(2, "fares_policy_changed") EXCEPT !.fares = "Yes"]}
  \cup {[AcmeRow(2, "direct_booking_updated") EXCEPT !.direct_booking = "Yes"]}
  \cup {AcmeRow(2, "service_paused"), AcmeRow(2, "service_ended")}
  \cup {ZetaRow(1, "service_created")}
  \cup {[ZetaRow(1, "platform_updated") EXCEPT !.platform = "App"]}
  \cup {RowOf("ACME", "", 1, "service_created")}

\* rows that lack company, city or date, next to rows that lack nothing
IncompleteRows ==
  { CreatedRow,
    [AcmeRow(2, "fares_policy_changed") EXCEPT !.fares = "Yes"],
    [ZetaRow(1, "service_created") EXCEPT !.platform = "App"],
    RowOf("", "Springfield", 1, "service_created"),
    RowOf("Acme", "", 2, "service_ended"),
    [AcmeRow(0, "fares_policy_changed") EXCEPT !.fares = "Yes"],
    RowOf("", "", 0, "service_created") }

IncompleteInputs == UNION {[1..n -> IncompleteRows] : n \in 0..MaxRows}

ValidatorInputs == UNION {[1..n -> ValidatorRows] : n \in 0..MaxRows}

\* the events of the service validateServiceTimeline is working on
TimelineEvents == serviceEvents[timeline].events

\* rebuild-cache.js has not been started
EngineNotRun ==
  /\ events = <<>>
  /\ sortedEvents = <<>>
  /\ idx = 0
  /\ allStates = <<>>
  /\ currentServiceStates = [s \in Services |-> NoEntry]
  /\ geometryMap = <<>>
  /\ pc = "off"
  /\ returned = <<>>

InitValidator ==
  /\ records \in ValidatorInputs
  /\ serviceEvents = <<>>
  /\ timeline = 0
  /\ eventIndex = 0
  /\ timelineState = <<>>
  /\ hasServiceCreated = FALSE
  /\ ERRORS = <<>>
  /\ WARNINGS = <<>>
  /\ isValid = Undefined
  /\ vpc = "read"
  /\ EngineNotRun
  /\ CacheNotRun
  /\ ToolsNotRun

\* lines 43-55, the catch: events.csv cannot be read or parsed
ReadFails ==
  /\ vpc = "read"
  /\ ERRORS' = Append(ERRORS, Msg(0, "Failed to read/parse CSV"))
  /\ isValid' = FALSE
  /\ vpc' = "done"
  /\ UNCHANGED <<records, serviceEvents, timeline, eventIndex, timelineState,
                 hasServiceCreated, WARNINGS>>
  /\ UNCHANGED <<engineVars, cacheVars, toolVars>>

\* lines 43-59: the rows are read and validateCSVStructure goes over them
ValidateStructure ==
  /\ vpc = "read"
  /\ LET found == ValidateCSVStructure(records)
     IN  /\ ERRORS' = ERRORS \o found.errors
         /\ WARNINGS' = WARNINGS \o found.warnings
  /\ vpc' = "group"
  /\ UNCHANGED <<records, serviceEvents, timeline, eventIndex, timelineState,
                 hasServiceCreated, isValid>>
  /\ UNCHANGED <<engineVars, cacheVars, toolVars>>

\* lines 61-86
GroupEvents ==
  /\ vpc = "group"
  /\ LET grouped == GroupRecords(records)
     IN  /\ serviceEvents' = grouped.groups
         /\ ERRORS' = ERRORS \o grouped.errors
  /\ vpc' = "timelines"
  /\ UNCHANGED <<records, timeline, eventIndex, timelineState, hasServiceCreated,
                 WARNINGS, isValid>>
  /\ UNCHANGED <<engineVars, cacheVars, toolVars>>

\* the forEach of the service before has visited all its events (or no
\* service has been taken up yet)
TimelineFinished ==
  IF timeline = 0 THEN TRUE ELSE eventIndex = Len(TimelineEvents)

\* lines 91-92 and 182-190: validateServiceTimeline is entered for the next
\* service; it sorts the service's events in place and starts with an empty
\* currentState
StartTimeline ==
  /\ vpc = "timelines"
  /\ TimelineFinished
  /\ timeline < Len(serviceEvents)
  /\ timeline' = timeline + 1
  /\ serviceEvents' = [serviceEvents EXCEPT ![timeline + 1].events = SortRows(@)]
  /\ timelineState' = NoTimelineState
  /\ hasServiceCreated' = FALSE
  /\ eventIndex' = 0
  /\ UNCHANGED <<records, ERRORS, WARNINGS, isValid, vpc>>
  /\ UNCHANGED <<engineVars, cacheVars, toolVars>>

\* one call of the forEach callback (lines 192-370)
ValidateEvent ==
  /\ vpc = "timelines"
  /\ timeline >= 1
  /\ eventIndex < Len(TimelineEvents)
  /\ LET visit == TimelineEvent(timelineState, hasServiceCreated,
                                TimelineEvents[eventIndex + 1], eventIndex)
     IN  /\ timelineState' = visit.state
         /\ hasServiceCreated' = visit.created
         /\ ERRORS' = ERRORS \o visit.errors
         /\ WARNINGS' = WARNINGS \o visit.warnings
  /\ eventIndex' = eventIndex + 1
  /\ UNCHANGED <<records, serviceEvents, timeline, isValid, vpc>>
  /\ UNCHANGED <<engineVars, cacheVars, toolVars>>

\* A summary that lets warnings fail the run.
SummaryFailingOnWarnings ==
  /\ vpc = "timelines"
  /\ TimelineFinished
  /\ timeline = Len(serviceEvents)
  /\ isValid' = (ERRORS = <<>> /\ WARNINGS = <<>>)
  /\ vpc' = "done"
  /\ UNCHANGED <<records, serviceEvents, timeline, eventIndex, timelineState,
                 hasServiceCreated, ERRORS, WARNINGS>>
  /\ UNCHANGED <<engineVars, cacheVars, toolVars>>

\* lines 95-116: validateCSV returns false exactly when there are errors
Summary ==
  /\ vpc = "timelines"
  /\ TimelineFinished
  /\ timeline = Len(serviceEvents)
  /\ isValid' = IF ERRORS = <<>> /\ WARNINGS = <<>> THEN TRUE
                ELSE IF Len(ERRORS) > 0 THEN FALSE
                ELSE TRUE
  /\ vpc' = "done"
  /\ UNCHANGED <<records, serviceEvents, timeline, eventIndex, timelineState,
                 hasServiceCreated, ERRORS, WARNINGS>>
  /\ UNCHANGED <<engineVars, cacheVars, toolVars>>

NextValidator ==
  ReadFails \/ ValidateStructure \/ GroupEvents \/ StartTimeline \/ ValidateEvent \/ Summary

SpecValidator == InitValidator /\ [][NextValidator]_vars

\* process.exit(isValid ? 0 : 1)  (line 415)
ExitCode == IF isValid = TRUE THEN 0 ELSE 1

\* the validator run on files with incomplete rows
InitIncomplete ==
  /\ records \in IncompleteInputs
  /\ serviceEvents = <<>>
  /\ timeline = 0
  /\ eventIndex = 0
  /\ timelineState = <<>>
  /\ hasServiceCreated = FALSE
  /\ ERRORS = <<>>
  /\ WARNINGS = <<>>
  /\ isValid = Undefined
  /\ vpc = "read"
  /\ EngineNotRun
  /\ CacheNotRun
  /\ ToolsNotRun

SpecIncomplete == InitIncomplete /\ [][NextValidator]_vars

----------------------------------------------------------------------------
(* import-csv.js: csvRowToEvent                                             *)

\* the kinds csvRowToEvent calls update events (lines 392-402)
ImportUpdateTypes ==
  { "fares_policy_changed", "access_policy_changed", "supervision_updated",
    "platform_updated", "vehicle_types_updated", "fleet_partner_changed",
    "service_model_updated", "geometry_updated", "direct_booking_updated" }

\* the column an update row carries its new value in (lines 440-448); the
\* geometry_file column is handled apart
ColumnBeingUpdated(eventType) ==
  CASE eventType = "fares_policy_changed"   -> "fares"
    [] eventType = "access_policy_changed"  -> "access"
    [] eventType = "supervision_updated"    -> "supervision"
    [] eventType = "platform_updated"       -> "platform"
    [] eventType = "vehicle_types_updated"  -> "vehicles"
    [] eventType = "fleet_partner_changed"  -> "fleet_partner"
    [] eventType = "service_model_updated"  -> "service_model"
    [] eventType = "direct_booking_updated" -> "direct_booking"
    [] OTHER                                -> ""

\* value.replace(/\.geojson$/, ''); an inline "lng,lat" value has no such
\* ending and stays as it is (lines 416-424)
GeometryNameOf(file) ==
  IF file # <<>> /\ file[Len(file)] = ".geojson"
  THEN SubSeq(file, 1, Len(file) - 1)
  ELSE file

\* lines 376-378
MissingRequiredFields(row) ==
  row.company = "" \/ row.city = "" \/ row.date = 0

\* lines 372-483, for a row that has its required fields
CsvRowToEvent(row) ==
  LET eventType == row.event_type
      isStart == eventType \in {"service_created", "service_testing", "service_announced"}
      Kept(csvKey) ==
        /\ row[csvKey] # ""
        /\ \/ isStart
           \/ csvKey \in {"notes", "expected_launch"}
           \/ eventType \in ImportUpdateTypes /\ csvKey # ColumnBeingUpdated(eventType)
      Cell(csvKey) == IF Kept(csvKey) THEN row[csvKey] ELSE Undefined
      New(csvKey) ==
        IF ColumnBeingUpdated(eventType) = csvKey /\ row[csvKey] # ""
        THEN row[csvKey] ELSE Undefined
  IN  Event(ServiceIdOf(row.company, row.city), row.date, eventType,
            [ geometry_name |-> GeometryNameOf(row.geometry_file),
              new_geometry_name |-> <<>>,
              vehicle_types |-> Cell("vehicles"), platform |-> Cell("platform"),
              fares |-> Cell("fares"), direct_booking |-> Cell("direct_booking"),
              service_model |-> Cell("service_model"),
              supervision |-> Cell("supervision"), access |-> Cell("access"),
              fleet_partner |-> Cell("fleet_partner"),
              expected_launch |-> Cell("expected_launch"), notes |-> Cell("notes"),
              new_fares |-> New("fares"), new_access |-> New("access"),
              new_vehicle_types |-> New("vehicles"), new_platform |-> New("platform"),
              new_supervision |-> New("supervision"),
              new_service_model |-> New("service_model"),
              new_fleet_partner |-> New("fleet_partner"),
              new_direct_booking |-> New("direct_booking") ])

\* What importCSV leaves in the events table (lines 502-541): the rows of
\* events.csv, each turned into an event; when a row lacks a required field
\* the import stops before it touches the table, which is empty here.
EventsTable(rows) ==
  IF \E i \in 1..Len(rows) : MissingRequiredFields(rows[i])
  THEN <<>>
  ELSE [i \in 1..Len(rows) |-> CsvRowToEvent(rows[i])]

----------------------------------------------------------------------------
(* import-csv.js: importCSV                                                 *)

\* the end index of Array.prototype.slice, which stops at the array's length
Min(a, b) == IF a < b THEN a ELSE b

\* const BATCH_SIZE of importCSV (line 524)
IMPORT_BATCH_SIZE == 50

\* lines 502-509: csvRowToEvent throws on the first row that lacks a
\* required field, and the callback of map throws the error on
ConversionThrowsOnFirstRowOnly(rows) ==
  rows # <<>> /\ MissingRequiredFields(rows[1])

ConversionThrows(rows) ==
  \E i \in 1..Len(rows) : MissingRequiredFields(rows[i])

\* the rows of events.csv the import is run on: rows of two services, and
\* rows without company, without city and without date
ImportRows ==
  { CreatedRow,
    ZetaRow(1, "service_testing"),
    [AcmeRow(2, "fares_policy_changed") EXCEPT !.fares = "Yes"],
    [CreatedRow EXCEPT !.company = ""],
    [AcmeRow(2, "service_ended") EXCEPT !.city = ""],
    [ZetaRow(2, "service_created") EXCEPT !.date = 0] }

ImportInputs == UNION {[1..n -> ImportRows] : n \in 0..MaxImported}

\* what an earlier import left in the events table
TableBefore ==
  { <<>>,
    <<CsvRowToEvent(CreatedRow)>>,
    <<CsvRowToEvent(CreatedRow), CsvRowToEvent(AcmeRow(3, "service_ended"))>> }

\* import-csv.js is run on events.csv
InitImport ==
  /\ EngineNotRun
  /\ ValidatorNotRun
  /\ CacheNotRun
  /\ geometryTable = EmptyMap
  /\ geometryBucket = EmptyMap
  /\ localFolder = [readable |-> TRUE, files |-> EmptyMap]
  /\ apiFailure = FALSE
  /\ SyncNotRun
  /\ UploadNotRun
  /\ StagingNotRun
  /\ importRecords \in ImportInputs
  /\ importEvents = <<>>
  /\ eventsTable \in TableBefore
  /\ imported = 0
  /\ tableRequests = <<>>
  /\ ipc = "convert"

\* lines 500-510, 564-567: every row is converted before the table is
\* touched; an error leaves through the catch, which exits with 1
ConvertRows ==
  /\ ipc = "convert"
  /\ IF ConversionThrows(importRecords)
     THEN /\ ipc' = "exit(1)"
          /\ UNCHANGED importEvents
     ELSE /\ importEvents' = [i \in 1..Len(importRecords) |-> CsvRowToEvent(importRecords[i])]
          /\ ipc' = "delete"
  /\ UNCHANGED <<importRecords, eventsTable, imported, tableRequests>>
  /\ UNCHANGED <<engineVars, validatorVars, cacheVars, storageVars, syncVars, uploadVars, stagingVars>>

\* lines 512-520: delete every row; deleteError is thrown
ClearTable ==
  /\ ipc = "delete"
  /\ tableRequests' = Append(tableRequests, "delete")
  /\ \/ /\ eventsTable' = <<>>
        /\ ipc' = "insert"
     \/ /\ ipc' = "exit(1)"
        /\ UNCHANGED eventsTable
  /\ UNCHANGED <<importRecords, importEvents, imported>>
  /\ UNCHANGED <<engineVars, validatorVars, cacheVars, storageVars, syncVars, uploadVars, stagingVars>>

\* lines 527-540: one batch of the for-loop; insertError is thrown
InsertBatch ==
  /\ ipc = "insert"
  /\ imported < Len(importEvents)
  /\ tableRequests' = Append(tableRequests, "insert")
  /\ LET batch == SubSeq(importEvents, imported + 1,
                         Min(imported + IMPORT_BATCH_SIZE, Len(importEvents)))
     IN  \/ /\ eventsTable' = eventsTable \o batch
            /\ imported' = imported + Len(batch)
            /\ UNCHANGED ipc
         \/ /\ ipc' = "exit(1)"
            /\ UNCHANGED <<eventsTable, imported>>
  /\ UNCHANGED <<importRecords, importEvents>>
  /\ UNCHANGED <<engineVars, validatorVars, cacheVars, storageVars, syncVars, uploadVars, stagingVars>>

\* lines 542-562: the rows of the table are counted; countError is thrown,
\* and a count other than events.length exits with 1
VerifyCount ==
  /\ ipc = "insert"
  /\ imported >= Len(importEvents)
  /\ \/ ipc' = (IF Len(eventsTable) = Len(importEvents) THEN "complete" ELSE "exit(1)")
     \/ ipc' = "exit(1)"
  /\ UNCHANGED <<importRecords, importEvents, eventsTable, imported, tableRequests>>
  /\ UNCHANGED <<engineVars, validatorVars, cacheVars, storageVars, syncVars, uploadVars, stagingVars>>

NextImport == ConvertRows \/ ClearTable \/ InsertBatch \/ VerifyCount

SpecImport == InitImport /\ [][NextImport]_vars

----------------------------------------------------------------------------
(* rebuild-cache.js: rebuildCache                                           *)

BATCH_SIZE == 8

\* square metres in a hundredth of a square mile, times 10000: the divisor
\* 2589988.11 of line 965
SquareMetresPerSquareMile == 258998811

\* The body of a geometry file, by what area() makes of it: its area in
\* square metres.
GeoJSON(squareMetres) == [type |-> "FeatureCollection", squareMetres |-> squareMetres]

\* area(geojson) of @turf/area
area(geojson) == geojson.squareMetres

\* Math.round(areaSquareMeters / 2589988.11 * 100) / 100, in hundredths of a
\* square mile (lines 964-968)
RoundedSquareMiles(geojson) ==
  (2 * area(geojson) * 10000 + SquareMetresPerSquareMile)
    \div (2 * SquareMetresPerSquareMile)

\* the geometries table, newest first (lines 893-896)
BoundaryGeometry == GeometryNameOf(BoundaryFile)
LotFile == <<"zeta-shelbyville", "-", "2025", "-", "boundary", ".geojson">>
LotGeometry == GeometryNameOf(LotFile)

Meta(name, url) == [geometry_name |-> name, storage_url |-> url]

GeometriesTable ==
  << Meta(LotGeometry, "https://storage.example/lot.geojson"),
     Meta(BoundaryGeometry, "https://storage.example/boundary.geojson") >>

\* (a body, geojson_data, cacheData and a file of the bucket are <<>> when
\* there is none and <<value>> otherwise)
\* What fetch(meta.storage_url) can come to: the promise is rejected (a
\* network error), the response is not OK, or it is OK and carries the file:
\* a service area of eight hectares, or a lot of one hectare.
FetchRejected == [rejected |-> TRUE, ok |-> FALSE, status |-> "", body |-> <<>>]
NotOK(status) == [rejected |-> FALSE, ok |-> FALSE, status |-> status, body |-> <<>>]
OK(body) == [rejected |-> FALSE, ok |-> TRUE, status |-> "200", body |-> <<body>>]
\* an OK response whose body is no JSON: response.json() rejects
OKNotJSON == [rejected |-> FALSE, ok |-> TRUE, status |-> "200", body |-> <<>>]

Responses ==
  {FetchRejected, NotOK("404"), OKNotJSON} \cup {OK(GeoJSON(m)) : m \in {80000, 10000}}

\* A failed fetch that leaves no error message behind.
FetchGeometrySilently(meta, response) ==
  IF response.rejected \/ ~response.ok
  THEN [geometry_name |-> meta.geometry_name, storage_url |-> meta.storage_url,
        geojson_data |-> <<>>, error |-> Undefined]
  ELSE [geometry_name |-> meta.geometry_name, storage_url |-> meta.storage_url,
        geojson_data |-> response.body, error |-> Undefined]

\* the callback of batch.map (lines 920-948)
FetchGeometry(meta, response) ==
  IF response.rejected
  THEN [geometry_name |-> meta.geometry_name, storage_url |-> meta.storage_url,
        geojson_data |-> <<>>, error |-> "fetch failed"]
  ELSE IF ~response.ok
  THEN [geometry_name |-> meta.geometry_name, storage_url |-> meta.storage_url,
        geojson_data |-> <<>>, error |-> "HTTP " \o response.status]
  ELSE IF response.body = <<>>
  THEN [geometry_name |-> meta.geometry_name, storage_url |-> meta.storage_url,
        geojson_data |-> <<>>, error |-> "Unexpected token"]
  ELSE [geometry_name |-> meta.geometry_name, storage_url |-> meta.storage_url,
        geojson_data |-> response.body, error |-> Undefined]

\* geometriesWithData.filter(g => g.geojson_data) and its complement
Successful(list) == SelectSeq(list, LAMBDA g : g.geojson_data # <<>>)
Failed(list) == SelectSeq(list, LAMBDA g : g.geojson_data = <<>>)

\* lines 960-971: the later entry of a name overwrites the earlier
BuildGeometryMap(list) ==
  LET loaded == {i \in 1..Len(list) : list[i].geojson_data # <<>>}
      names == {list[i].geometry_name : i \in loaded}
      Last(name) == Max({i \in loaded : list[i].geometry_name = name})
  IN  [name \in names |-> RoundedSquareMiles(list[Last(name)].geojson_data[1])]

\* lines 979-987
GeometriesForFrontend(list) ==
  [i \in 1..Len(list) |->
     [geometryName |-> list[i].geometry_name, storageUrl |-> list[i].storage_url,
      geojsonData |-> list[i].geojson_data, error |-> list[i].error]]

\* The cache with only the events of the kinds the engine names in its
\* events list.
CacheDataOfNamedKinds(evts, metas, list, serviceAreas) ==
  [ metadata |->
      [export_stats |->
         [total_events |-> Len(evts),
          total_geometries |-> Len(metas),
          loaded_geometries |-> Len(Successful(list)),
          failed_geometries |-> Len(Failed(list)),
          total_service_areas |-> Len(serviceAreas)]],
    events |-> SelectSeq(evts, LAMBDA e :
                 e.event_type \in {"service_testing", "service_announced",
                                    "service_created", "service_ended"}
                                   \cup GeometryUpdateTypes \cup UpdateTypes),
    geometries |-> GeometriesForFrontend(list),
    service_areas |-> serviceAreas ]

\* lines 989-1009, without the clock readings
CacheDataOf(evts, metas, list, serviceAreas) ==
  [ metadata |->
      [export_stats |->
         [total_events |-> Len(evts),
          total_geometries |-> Len(metas),
          loaded_geometries |-> Len(Successful(list)),
          failed_geometries |-> Len(Failed(list)),
          total_service_areas |-> Len(serviceAreas)]],
    events |-> evts,
    geometries |-> GeometriesForFrontend(list),
    service_areas |-> serviceAreas ]

\* .order('event_date', { ascending: true }): the rows of the table in an
\* order of ascending dates; rows of one date come in any order
DateOrdered(table) ==
  LET n == Len(table)
      orders == {p \in [1..n -> 1..n] :
                   /\ \A i, j \in 1..n : i # j => p[i] # p[j]
                   /\ \A i, j \in 1..n :
                        i < j => table[p[i]].event_date <= table[p[j]].event_date}
  IN  {[i \in 1..n |-> table[p[i]]] : p \in orders}

\* the rows of events.csv the pipeline is run on: a service with a boundary
\* file, a kind nobody names, updates, an end, and a second service with a
\* file of its own
PipelineRows ==
  { [CreatedRow EXCEPT !.geometry_file = BoundaryFile],
    [ZetaRow(1, "service_testing") EXCEPT !.geometry_file = LotFile, !.platform = "TestApp"],
    [AcmeRow(2, "geometry_updated") EXCEPT !.geometry_file = LotFile],
    [AcmeRow(2, "fares_policy_changed") EXCEPT !.fares = "Yes"],
    AcmeRow(2, "service_ended") }
  \cup {[AcmeRow(d, "service_paused") EXCEPT !.notes = "paused"] : d \in {1, 2}}

PipelineInputs == UNION {[1..n -> PipelineRows] : n \in 0..MaxImported}

\* validate-csv.js is run on events.csv, the file is imported, and
\* rebuild-cache.js is run for production or for staging
InitPipeline ==
  /\ records \in PipelineInputs
  /\ serviceEvents = <<>>
  /\ timeline = 0
  /\ eventIndex = 0
  /\ timelineState = <<>>
  /\ hasServiceCreated = FALSE
  /\ ERRORS = <<>>
  /\ WARNINGS = <<>>
  /\ isValid = Undefined
  /\ vpc = "read"
  /\ EngineNotRun
  /\ isStaging \in BOOLEAN
  /\ geometriesMeta = <<>>
  /\ geometriesWithData = <<>>
  /\ cacheData = <<>>
  /\ storage = BucketBefore
  /\ rebuildError = Undefined
  /\ rpc = "query"
  /\ inFlight = {}
  /\ batchResults = <<>>
  /\ pendingJson = EmptyMap
  /\ ToolsNotRun

\* lines 886-903: both queries answer
Query ==
  /\ rpc = "query"
  /\ vpc = "done"
  /\ events' \in DateOrdered(EventsTable(records))
  /\ geometriesMeta' = GeometriesTable
  /\ rpc' = "fetch"
  /\ UNCHANGED <<sortedEvents, idx, allStates, currentServiceStates, geometryMap, pc, returned>>
  /\ UNCHANGED <<isStaging, geometriesWithData, cacheData, storage, rebuildError>>
  /\ UNCHANGED <<inFlight, batchResults, pendingJson>>
  /\ UNCHANGED <<validatorVars, toolVars>>

\* lines 899-900, 1059-1062: a query answers with an error, which is thrown
QueryFails ==
  /\ rpc = "query"
  /\ vpc = "done"
  /\ rebuildError' = "query error"
  /\ rpc' = "thrown"
  /\ UNCHANGED <<isStaging, geometriesMeta, geometriesWithData, cacheData, storage>>
  /\ UNCHANGED <<inFlight, batchResults, pendingJson>>
  /\ UNCHANGED <<engineVars, validatorVars, toolVars>>

\* Lines 907-952, fetch by fetch: batch.map starts the fetch of every file
\* of the batch before the await of Promise.all gives up control; the
\* fetches settle one by one, in any order; Promise.all resolves once the
\* last callback has returned, with the results in the order of the batch.

\* a geometries table of n rows
GeometryFiles(n) ==
  [k \in 1..n |-> Meta(<<"area", DigitSeq[k]>>, "https://storage.example/" \o DigitSeq[k])]

\* What the fetch of a row's file can come to: for the files of
\* GeometriesTable every response; for the rows of a longer table a
\* network error or the file, and for its first row also a body that is
\* no JSON.
FetchOutcomes == {FetchRejected, OK(GeoJSON(80000))}
AnswersFor(meta) ==
  IF \E i \in 1..Len(GeometriesTable) : GeometriesTable[i] = meta
  THEN Responses
  ELSE IF meta = GeometryFiles(1)[1]
  THEN FetchOutcomes \cup {OKNotJSON}
  ELSE FetchOutcomes

\* Every file that is left in one batch.
RestOfTable(metas, i) == (i + 1)..Len(metas)

\* geometriesMeta.slice(i, i + BATCH_SIZE) (line 913), as the positions of
\* its rows in geometriesMeta (from 1)
Batch(metas, i) == (i + 1)..Min(i + BATCH_SIZE, Len(metas))

\* lines 912-921: the loop test, the slice, and batch.map up to the await of
\* each callback: every fetch of the batch is under way
StartBatch ==
  /\ rpc = "fetch"
  /\ Len(geometriesWithData) < Len(geometriesMeta)
  /\ inFlight' = Batch(geometriesMeta, Len(geometriesWithData))
  /\ batchResults' = [k \in 1..Cardinality(inFlight') |-> <<>>]
  /\ rpc' = "await"
  /\ UNCHANGED <<isStaging, geometriesMeta, geometriesWithData, cacheData, storage, rebuildError>>
  /\ UNCHANGED pendingJson
  /\ UNCHANGED <<engineVars, validatorVars, toolVars>>

\* lines 921-925, 936-947: one fetch settles. When it is rejected or the
\* response is not OK, the callback goes through its catch and returns;
\* with an OK response the callback awaits response.json() (line 926)
Settle ==
  /\ rpc = "await"
  /\ \E k \in inFlight :
       \E response \in AnswersFor(geometriesMeta[k]) :
         /\ inFlight' = inFlight \ {k}
         /\ IF response.rejected \/ ~response.ok
            THEN /\ batchResults' =
                      [batchResults EXCEPT ![k - Len(geometriesWithData)] =
                         <<FetchGeometry(geometriesMeta[k], response)>>]
                 /\ UNCHANGED pendingJson
            ELSE /\ pendingJson' = Put(pendingJson, k, response)
                 /\ UNCHANGED batchResults
  /\ UNCHANGED <<isStaging, geometriesMeta, geometriesWithData, cacheData, storage, rebuildError, rpc>>
  /\ UNCHANGED <<engineVars, validatorVars, toolVars>>

\* lines 926-947: response.json() resolves with the file, or rejects and
\* the callback goes through its catch; the callback returns
ParseResponse ==
  /\ rpc = "await"
  /\ \E k \in DOMAIN pendingJson :
       /\ batchResults' =
            [batchResults EXCEPT ![k - Len(geometriesWithData)] =
               <<FetchGeometry(geometriesMeta[k], pendingJson[k])>>]
       /\ pendingJson' = Without(pendingJson, {k})
  /\ UNCHANGED <<isStaging, geometriesMeta, geometriesWithData, cacheData, storage, rebuildError, rpc>>
  /\ UNCHANGED <<inFlight>>
  /\ UNCHANGED <<engineVars, validatorVars, toolVars>>

\* The results of a batch are pushed last first.
AwaitBatchReversed ==
  /\ rpc = "await"
  /\ \A k \in 1..Len(batchResults) : batchResults[k] # <<>>
  /\ geometriesWithData' =
       geometriesWithData
         \o [k \in 1..Len(batchResults) |-> batchResults[Len(batchResults) + 1 - k][1]]
  /\ batchResults' = <<>>
  /\ rpc' = "fetch"
  /\ UNCHANGED <<isStaging, geometriesMeta, cacheData, storage, rebuildError, inFlight, pendingJson>>
  /\ UNCHANGED <<engineVars, validatorVars, toolVars>>

\* lines 919, 951: Promise.all resolves and the results are pushed
AwaitBatch ==
  /\ rpc = "await"
  /\ \A k \in 1..Len(batchResults) : batchResults[k] # <<>>
  /\ geometriesWithData' =
       geometriesWithData \o [k \in 1..Len(batchResults) |-> batchResults[k][1]]
  /\ batchResults' = <<>>
  /\ rpc' = "fetch"
  /\ UNCHANGED <<isStaging, geometriesMeta, cacheData, storage, rebuildError, inFlight, pendingJson>>
  /\ UNCHANGED <<engineVars, validatorVars, toolVars>>

\* lines 954-975: the geometry map is built and buildServiceAreasFromEvents
\* is called with it
ProcessServiceAreas ==
  /\ rpc = "fetch"
  /\ Len(geometriesWithData) = Len(geometriesMeta)
  /\ geometryMap' = BuildGeometryMap(geometriesWithData)
  /\ pc' = "sort"
  /\ rpc' = "process"
  /\ UNCHANGED <<events, sortedEvents, idx, allStates, currentServiceStates, returned>>
  /\ UNCHANGED <<isStaging, geometriesMeta, geometriesWithData, cacheData, storage, rebuildError>>
  /\ UNCHANGED <<inFlight, batchResults, pendingJson>>
  /\ UNCHANGED <<validatorVars, toolVars>>

\* lines 977-1016: buildServiceAreasFromEvents has returned
AssembleCacheData ==
  /\ rpc = "process"
  /\ pc = "done"
  /\ cacheData' = <<CacheDataOf(events, geometriesMeta, geometriesWithData,
                                returned[Len(returned)])>>
  /\ rpc' = IF isStaging THEN "remove" ELSE "backup"
  /\ UNCHANGED <<isStaging, geometriesMeta, geometriesWithData, storage, rebuildError>>
  /\ UNCHANGED <<inFlight, batchResults, pendingJson>>
  /\ UNCHANGED <<engineVars, validatorVars, toolVars>>

\* lines 1018-1032: the timestamped copy, for production only
UploadBackup ==
  /\ rpc = "backup"
  /\ \/ /\ storage' = [storage EXCEPT !.backups = Append(@, cacheData[1])]
        /\ rpc' = "remove"
        /\ UNCHANGED rebuildError
     \/ /\ rebuildError' = "upload error"
        /\ rpc' = "thrown"
        /\ UNCHANGED storage
  /\ UNCHANGED <<isStaging, geometriesMeta, geometriesWithData, cacheData>>
  /\ UNCHANGED <<inFlight, batchResults, pendingJson>>
  /\ UNCHANGED <<engineVars, validatorVars, toolVars>>

\* line 1035: the answer of remove() is not looked at
RemoveMain ==
  /\ rpc = "remove"
  /\ \/ storage' = [storage EXCEPT !.main = <<>>]
     \/ UNCHANGED storage
  /\ rpc' = "upload"
  /\ UNCHANGED <<isStaging, geometriesMeta, geometriesWithData, cacheData, rebuildError>>
  /\ UNCHANGED <<inFlight, batchResults, pendingJson>>
  /\ UNCHANGED <<engineVars, validatorVars, toolVars>>

\* lines 1036-1057
UploadMain ==
  /\ rpc = "upload"
  /\ \/ /\ storage' = [storage EXCEPT !.main = cacheData]
        /\ rpc' = "done"
        /\ UNCHANGED rebuildError
     \/ /\ rebuildError' = "upload error"
        /\ rpc' = "thrown"
        /\ UNCHANGED storage
  /\ UNCHANGED <<isStaging, geometriesMeta, geometriesWithData, cacheData>>
  /\ UNCHANGED <<inFlight, batchResults, pendingJson>>
  /\ UNCHANGED <<engineVars, validatorVars, toolVars>>

NextPipeline ==
  \/ ReadFails \/ ValidateStructure \/ GroupEvents \/ StartTimeline \/ ValidateEvent \/ Summary
  \/ Query \/ QueryFails \/ StartBatch \/ Settle \/ ParseResponse \/ AwaitBatch
  \/ ProcessServiceAreas
  \/ Sort \/ IterateList \/ Return
  \/ AssembleCacheData \/ UploadBackup \/ RemoveMain \/ UploadMain

SpecPipeline == InitPipeline /\ [][NextPipeline]_vars

----------------------------------------------------------------------------
(* src/rebuild-cache.js, the earlier rebuildCache: step 5, the uploads      *)

\* lines 107-127: the geometries go into the cache as they were fetched
OlderCacheData(evts, metas, list, serviceAreas) ==
  [ metadata |->
      [export_stats |->
         [total_events |-> Len(evts),
          total_geometries |-> Len(metas),
          loaded_geometries |-> Len(Successful(list)),
          failed_geometries |-> Len(Failed(list)),
          total_service_areas |-> Len(serviceAreas)]],
    events |-> evts,
    geometries |-> list,
    service_areas |-> serviceAreas ]

\* what the data-cache bucket holds when a run starts: nothing, or the
\* files of an earlier run
BucketsBefore ==
  [main : {<<>>, <<OldCache>>}, backups : {<<>>, <<OldCache>>}]

\* Steps 1 to 4 are over (lines 27-127): the events table is empty, some
\* rows of the geometries table have been fetched, and cacheData is built.
InitOlder ==
  /\ EngineNotRun
  /\ ValidatorNotRun
  /\ ToolsNotRun
  /\ isStaging = FALSE
  /\ \E n \in 0..Len(GeometriesTable) :
       /\ geometriesMeta = SubSeq(GeometriesTable, 1, n)
       /\ \E responses \in [1..n -> Responses] :
            geometriesWithData =
              [k \in 1..n |-> FetchGeometry(GeometriesTable[k], responses[k])]
  /\ cacheData = <<OlderCacheData(<<>>, geometriesMeta, geometriesWithData, <<>>)>>
  /\ storage \in BucketsBefore
  /\ rebuildError = Undefined
  /\ rpc = "backup"
  /\ inFlight = {}
  /\ batchResults = <<>>
  /\ pendingJson = EmptyMap

\* lines 135-146: the timestamped file; uploadError is thrown
OlderUploadCopy ==
  /\ rpc = "backup"
  /\ \/ /\ storage' = [storage EXCEPT !.backups = Append(@, cacheData[1])]
        /\ rpc' = "remove"
        /\ UNCHANGED rebuildError
     \/ /\ rebuildError' = "upload error"
        /\ rpc' = "thrown"
        /\ UNCHANGED storage
  /\ UNCHANGED <<isStaging, geometriesMeta, geometriesWithData, cacheData>>
  /\ UNCHANGED <<inFlight, batchResults, pendingJson>>
  /\ UNCHANGED <<engineVars, validatorVars, toolVars>>

\* line 149: the answer of remove() is not looked at
OlderRemoveMain ==
  /\ rpc = "remove"
  /\ \/ storage' = [storage EXCEPT !.main = <<>>]
     \/ UNCHANGED storage
  /\ rpc' = "upload"
  /\ UNCHANGED <<isStaging, geometriesMeta, geometriesWithData, cacheData, rebuildError>>
  /\ UNCHANGED <<inFlight, batchResults, pendingJson>>
  /\ UNCHANGED <<engineVars, validatorVars, toolVars>>

\* lines 150-169: the upload of all-data.json answers into mainUploadError,
\* which nothing reads; line 157 tests uploadError, which is null since
\* line 146 let the run pass, so the run goes on to "Cache rebuild
\* complete!" and return true whatever the upload answered
OlderUploadMain ==
  /\ rpc = "upload"
  /\ \/ storage' = [storage EXCEPT !.main = cacheData]
     \/ UNCHANGED storage
  /\ rpc' = "done"
  /\ UNCHANGED <<isStaging, geometriesMeta, geometriesWithData, cacheData, rebuildError>>
  /\ UNCHANGED <<inFlight, batchResults, pendingJson>>
  /\ UNCHANGED <<engineVars, validatorVars, toolVars>>

NextOlder == OlderUploadCopy \/ OlderRemoveMain \/ OlderUploadMain

SpecOlder == InitOlder /\ [][NextOlder]_vars

----------------------------------------------------------------------------
(* The pipeline run on the files of one service: the validator and, behind  *)
(* the import, the engine see the same rows.                                *)

\* rows of one service in the order of their dates: start events that fill
\* some columns and leave others empty, updates, and an end
AgreementRows ==
  { [AcmeRow(1, "service_testing") EXCEPT !.platform = "TestApp", !.fares = "Free"],
    [AcmeRow(1, "service_created") EXCEPT !.platform = "App", !.fares = "No"],
    [AcmeRow(2, "service_created") EXCEPT !.fares = "No"],
    [AcmeRow(2, "platform_updated") EXCEPT !.platform = "TestApp"],
    [AcmeRow(2, "fares_policy_changed") EXCEPT !.fares = "Yes"],
    AcmeRow(2, "service_ended"),
    [AcmeRow(3, "fares_policy_changed") EXCEPT !.fares = "Free"] }

AgreementInputs ==
  {l \in UNION {[1..n -> AgreementRows] : n \in 0..MaxAgreed} :
     \A i, j \in 1..Len(l) : i < j => l[i].date <= l[j].date}

InitAgreement ==
  /\ records \in AgreementInputs
  /\ serviceEvents = <<>>
  /\ timeline = 0
  /\ eventIndex = 0
  /\ timelineState = <<>>
  /\ hasServiceCreated = FALSE
  /\ ERRORS = <<>>
  /\ WARNINGS = <<>>
  /\ isValid = Undefined
  /\ vpc = "read"
  /\ EngineNotRun
  /\ isStaging \in BOOLEAN
  /\ geometriesMeta = <<>>
  /\ geometriesWithData = <<>>
  /\ cacheData = <<>>
  /\ storage = BucketBefore
  /\ rebuildError = Undefined
  /\ rpc = "query"
  /\ inFlight = {}
  /\ batchResults = <<>>
  /\ pendingJson = EmptyMap
  /\ ToolsNotRun

SpecAgreement == InitAgreement /\ [][NextPipeline]_vars

----------------------------------------------------------------------------
(* rebuildCache, lines 907-975, on geometries tables of up to              *)
(* MaxGeometries rows and an empty events table                             *)

InitFetch ==
  /\ EngineNotRun
  /\ ValidatorNotRun
  /\ isStaging \in BOOLEAN
  /\ geometriesMeta = <<>>
  /\ geometriesWithData = <<>>
  /\ cacheData = <<>>
  /\ storage = BucketBefore
  /\ rebuildError = Undefined
  /\ rpc = "query"
  /\ inFlight = {}
  /\ batchResults = <<>>
  /\ pendingJson = EmptyMap
  /\ ToolsNotRun

\* lines 886-903: both queries answer; the events table is empty
QueryTables ==
  /\ rpc = "query"
  /\ vpc = "off"
  /\ events' = <<>>
  /\ \E n \in 0..MaxGeometries : geometriesMeta' = GeometryFiles(n)
  /\ rpc' = "fetch"
  /\ UNCHANGED <<sortedEvents, idx, allStates, currentServiceStates, geometryMap, pc, returned>>
  /\ UNCHANGED <<isStaging, geometriesWithData, cacheData, storage, rebuildError>>
  /\ UNCHANGED <<inFlight, batchResults, pendingJson>>
  /\ UNCHANGED <<validatorVars, toolVars>>

NextFetch ==
  \/ QueryTables \/ StartBatch \/ Settle \/ ParseResponse \/ AwaitBatch
  \/ ProcessServiceAreas

SpecFetch == InitFetch /\ [][NextFetch]_vars

\* rebuildCache from the queries to the upload of all-data.json, fetch by
\* fetch; the events table is empty, so the loop of
\* buildServiceAreasFromEvents has no pass
NextCache ==
  \/ QueryTables \/ StartBatch \/ Settle \/ ParseResponse \/ AwaitBatch
  \/ ProcessServiceAreas
  \/ Sort \/ Return
  \/ AssembleCacheData \/ UploadBackup \/ RemoveMain \/ UploadMain

SpecCache == InitFetch /\ [][NextCache]_vars

----------------------------------------------------------------------------
(* sync-geometries-table.js (part_005 lines 572-812), with STAGING unset    *)

\* f.endsWith('.geojson')
EndsWithGeojson(file) == file # <<>> /\ file[Len(file)] = ".geojson"

\* name.replace('.geojson', ''): the first '.geojson' of the name goes
RemoveGeojson(file) ==
  LET at == {i \in 1..Len(file) : file[i] = ".geojson"}
      first == CHOOSE i \in at : \A j \in at : i <= j
  IN  IF at = {} THEN file
      ELSE SubSeq(file, 1, first - 1) \o SubSeq(file, first + 1, Len(file))

\* supabase.storage.from(bucket).getPublicUrl(file.name)
PublicUrl(file) == [bucket |-> "service-area-boundaries", file |-> file]

\* the URL of the file in the bucket of the other environment
StagingUrl(file) == [bucket |-> "staging-service-area-boundaries", file |-> file]

\* the lists that hold each element of S once: the orders a listing can
\* come in
ListingsOf(S) ==
  {l \in [1..Cardinality(S) -> S] : \A i, j \in 1..Cardinality(S) : i # j => l[i] # l[j]}

\* the files the bucket and the folder are made of: two boundary files and
\* a file that is no GeoJSON
GeometryFileNames == {BoundaryFile, LotFile}
OtherFileNames == {SketchFile}

\* a folder or bucket: some of the files, each with a content
FilesOf(contents) ==
  UNION {[S -> contents] : S \in SUBSET (GeometryFileNames \cup OtherFileNames)}

\* a geometries table: rows for some of the names, each with the URL of this
\* environment or of the other
TablesOf ==
  UNION {{[n \in N |-> IF n \in W THEN StagingUrl(n \o <<".geojson">>)
                                     ELSE PublicUrl(n \o <<".geojson">>)] : W \in SUBSET N} :
           N \in SUBSET {RemoveGeojson(f) : f \in GeometryFileNames}}

InitSync ==
  /\ EngineNotRun
  /\ ValidatorNotRun
  /\ CacheNotRun
  /\ UploadNotRun
  /\ ImportNotRun
  /\ StagingNotRun
  /\ geometryTable \in TablesOf
  /\ geometryBucket \in FilesOf({"v1"})
  /\ localFolder \in {[readable |-> r, files |-> f] : r \in BOOLEAN, f \in FilesOf({"v1"})}
  /\ apiFailure = FALSE
  /\ geojsonFiles = <<>>
  /\ existingNames = {}
  /\ existingUrlMap = EmptyMap
  /\ fileIndex = 0
  /\ syncFailed = 0
  /\ localFileSet = <<>>
  /\ spc = "list"

\* lines 619-630: the listing of the bucket; listError: process.exit(1)
ListFiles ==
  /\ spc = "list"
  /\ \/ /\ apiFailure' = TRUE
        /\ spc' = "exit1"
        /\ UNCHANGED geojsonFiles
     \/ /\ geojsonFiles' \in
             ListingsOf({f \in DOMAIN geometryBucket : EndsWithGeojson(f)})
        /\ spc' = "selectNames"
        /\ UNCHANGED apiFailure
  /\ UNCHANGED <<geometryTable, geometryBucket, localFolder>>
  /\ UNCHANGED <<existingNames, existingUrlMap, fileIndex, syncFailed, localFileSet>>
  /\ UNCHANGED <<engineVars, validatorVars, cacheVars, uploadVars, importVars, stagingVars>>

\* lines 632-645: select('geometry_name'); dbError: process.exit(1)
SelectNames ==
  /\ spc = "selectNames"
  /\ \/ /\ apiFailure' = TRUE
        /\ spc' = "exit1"
        /\ UNCHANGED existingNames
     \/ /\ existingNames' = DOMAIN geometryTable
        /\ spc' = "selectUrls"
        /\ UNCHANGED apiFailure
  /\ UNCHANGED <<geometryTable, geometryBucket, localFolder>>
  /\ UNCHANGED <<geojsonFiles, existingUrlMap, fileIndex, syncFailed, localFileSet>>
  /\ UNCHANGED <<engineVars, validatorVars, cacheVars, uploadVars, importVars, stagingVars>>

\* lines 647-662: select('geometry_name, storage_url'); its error is not
\* looked at, and without data the map is empty
SelectUrls ==
  /\ spc = "selectUrls"
  /\ \/ existingUrlMap' = geometryTable /\ UNCHANGED apiFailure
     \/ existingUrlMap' = EmptyMap /\ apiFailure' = TRUE
  /\ spc' = "upsert"
  /\ UNCHANGED <<geometryTable, geometryBucket, localFolder>>
  /\ UNCHANGED <<geojsonFiles, existingNames, fileIndex, syncFailed, localFileSet>>
  /\ UNCHANGED <<engineVars, validatorVars, cacheVars, uploadVars, importVars, stagingVars>>

\* While the script waits for an answer another client of the database
\* inserts the row of a file, with the URL of this bucket.
OtherClientInserts ==
  /\ spc \notin {"off", "done", "exit1"}
  /\ \E name \in {RemoveGeojson(f) : f \in GeometryFileNames} \ DOMAIN geometryTable :
       geometryTable' = Put(geometryTable, name, PublicUrl(name \o <<".geojson">>))
  /\ UNCHANGED <<geometryBucket, localFolder, apiFailure>>
  /\ UNCHANGED syncVars
  /\ UNCHANGED <<engineVars, validatorVars, cacheVars, uploadVars, importVars, stagingVars>>

\* lines 661-716: one iteration of the for-loop
UpsertFile ==
  /\ spc = "upsert"
  /\ fileIndex < Len(geojsonFiles)
  /\ fileIndex' = fileIndex + 1
  /\ LET file == geojsonFiles[fileIndex + 1]
         geometryName == RemoveGeojson(file)
         publicUrl == PublicUrl(file)
         urlKnown == geometryName \in DOMAIN existingUrlMap
     IN  IF urlKnown /\ existingUrlMap[geometryName] = publicUrl
         THEN \* unchanged++
              UNCHANGED <<geometryTable, apiFailure, syncFailed>>
         ELSE \/ \* update or insert answers with an error
                 /\ syncFailed' = syncFailed + 1
                 /\ apiFailure' = TRUE
                 /\ UNCHANGED geometryTable
              \/ /\ geometryTable' =
                      IF geometryName \in existingNames
                      THEN \* update ... .eq('geometry_name', geometryName)
                           [n \in DOMAIN geometryTable |->
                              IF n = geometryName THEN publicUrl ELSE geometryTable[n]]
                      ELSE Put(geometryTable, geometryName, publicUrl)
                 /\ UNCHANGED <<apiFailure, syncFailed>>
  /\ UNCHANGED <<geometryBucket, localFolder>>
  /\ UNCHANGED <<geojsonFiles, existingNames, existingUrlMap, localFileSet, spc>>
  /\ UNCHANGED <<engineVars, validatorVars, cacheVars, uploadVars, importVars, stagingVars>>

\* lines 719-734
ReadLocalFolder ==
  /\ spc = "upsert"
  /\ fileIndex = Len(geojsonFiles)
  /\ localFileSet' =
       IF localFolder.readable
       THEN <<{RemoveGeojson(f) : f \in {g \in DOMAIN localFolder.files : EndsWithGeojson(g)}}>>
       ELSE <<>>
  /\ spc' = IF localFolder.readable THEN "tableOrphans" ELSE "summary"
  /\ UNCHANGED storageVars
  /\ UNCHANGED <<geojsonFiles, existingNames, existingUrlMap, fileIndex, syncFailed>>
  /\ UNCHANGED <<engineVars, validatorVars, cacheVars, uploadVars, importVars, stagingVars>>

\* line 746: [...existingNames].filter(name => !localFileSet.has(name))
TableOrphans(names, localSet) == {name \in names : name \notin localSet}

\* line 747
BucketOrphans(files, localSet) ==
  {name \in {RemoveGeojson(files[i]) : i \in 1..Len(files)} : name \notin localSet}

\* lines 749-764
DeleteTableOrphans ==
  /\ spc = "tableOrphans"
  /\ LET tableOrphans == TableOrphans(existingNames, localFileSet[1])
     IN  IF tableOrphans = {}
         THEN UNCHANGED <<geometryTable, apiFailure>>
         ELSE \/ geometryTable' = Without(geometryTable, tableOrphans) /\ UNCHANGED apiFailure
              \/ \* deleteError: logged, and the script goes on
                 apiFailure' = TRUE /\ UNCHANGED geometryTable
  /\ spc' = "bucketOrphans"
  /\ UNCHANGED <<geometryBucket, localFolder>>
  /\ UNCHANGED <<geojsonFiles, existingNames, existingUrlMap, fileIndex, syncFailed, localFileSet>>
  /\ UNCHANGED <<engineVars, validatorVars, cacheVars, uploadVars, importVars, stagingVars>>

\* lines 766-787
DeleteBucketOrphans ==
  /\ spc = "bucketOrphans"
  /\ LET bucketOrphans == BucketOrphans(geojsonFiles, localFileSet[1])
         filesToDelete == {name \o <<".geojson">> : name \in bucketOrphans}
     IN  IF bucketOrphans = {}
         THEN UNCHANGED <<geometryBucket, apiFailure>>
         ELSE \/ geometryBucket' = Without(geometryBucket, filesToDelete) /\ UNCHANGED apiFailure
              \/ \* storageError: logged, and the script goes on
                 apiFailure' = TRUE /\ UNCHANGED geometryBucket
  /\ spc' = "summary"
  /\ UNCHANGED <<geometryTable, localFolder>>
  /\ UNCHANGED <<geojsonFiles, existingNames, existingUrlMap, fileIndex, syncFailed, localFileSet>>
  /\ UNCHANGED <<engineVars, validatorVars, cacheVars, uploadVars, importVars, stagingVars>>

\* lines 790-806
SyncSummary ==
  /\ spc = "summary"
  /\ spc' = IF syncFailed = 0 THEN "done" ELSE "exit1"
  /\ UNCHANGED storageVars
  /\ UNCHANGED <<geojsonFiles, existingNames, existingUrlMap, fileIndex, syncFailed, localFileSet>>
  /\ UNCHANGED <<engineVars, validatorVars, cacheVars, uploadVars, importVars, stagingVars>>

NextSync ==
  \/ ListFiles \/ SelectNames \/ SelectUrls \/ UpsertFile \/ ReadLocalFolder
  \/ DeleteTableOrphans \/ DeleteBucketOrphans \/ SyncSummary
  \/ OtherClientInserts

SpecSync == InitSync /\ [][NextSync]_vars

----------------------------------------------------------------------------
(* src/sync-geometries-table.js, the earlier syncGeometriesTable (lines     *)
(* 43-126), with STAGING unset: rows are inserted for the files the table   *)
(* does not name; no URL is updated and nothing is deleted.                 *)

\* lines 44-56: the listing of the bucket; listError: process.exit(1)
OlderListFiles ==
  /\ spc = "list"
  /\ \/ /\ apiFailure' = TRUE
        /\ spc' = "exit1"
        /\ UNCHANGED geojsonFiles
     \/ /\ geojsonFiles' \in
             ListingsOf({f \in DOMAIN geometryBucket : EndsWithGeojson(f)})
        /\ spc' = "selectNames"
        /\ UNCHANGED apiFailure
  /\ UNCHANGED <<geometryTable, geometryBucket, localFolder>>
  /\ UNCHANGED <<existingNames, existingUrlMap, fileIndex, syncFailed, localFileSet>>
  /\ UNCHANGED <<engineVars, validatorVars, cacheVars, uploadVars, importVars, stagingVars>>

\* lines 58-70: select('geometry_name'); dbError: process.exit(1)
OlderSelectNames ==
  /\ spc = "selectNames"
  /\ \/ /\ apiFailure' = TRUE
        /\ spc' = "exit1"
        /\ UNCHANGED existingNames
     \/ /\ existingNames' = DOMAIN geometryTable
        /\ spc' = "insert"
        /\ UNCHANGED apiFailure
  /\ UNCHANGED <<geometryTable, geometryBucket, localFolder>>
  /\ UNCHANGED <<geojsonFiles, existingUrlMap, fileIndex, syncFailed, localFileSet>>
  /\ UNCHANGED <<engineVars, validatorVars, cacheVars, uploadVars, importVars, stagingVars>>

\* lines 79-111: one iteration of the for-loop
OlderInsertFile ==
  /\ spc = "insert"
  /\ fileIndex < Len(geojsonFiles)
  /\ fileIndex' = fileIndex + 1
  /\ LET file == geojsonFiles[fileIndex + 1]
         geometryName == RemoveGeojson(file)
     IN  IF geometryName \in existingNames
         THEN \* skipped++
              UNCHANGED <<geometryTable, apiFailure, syncFailed>>
         ELSE \/ \* insertError
                 /\ syncFailed' = syncFailed + 1
                 /\ apiFailure' = TRUE
                 /\ UNCHANGED geometryTable
              \/ /\ geometryTable' = Put(geometryTable, geometryName, PublicUrl(file))
                 /\ UNCHANGED <<apiFailure, syncFailed>>
  /\ UNCHANGED <<geometryBucket, localFolder>>
  /\ UNCHANGED <<geojsonFiles, existingNames, existingUrlMap, localFileSet, spc>>
  /\ UNCHANGED <<engineVars, validatorVars, cacheVars, uploadVars, importVars, stagingVars>>

\* lines 113-126
OlderSyncSummary ==
  /\ spc = "insert"
  /\ fileIndex = Len(geojsonFiles)
  /\ spc' = IF syncFailed = 0 THEN "done" ELSE "exit1"
  /\ UNCHANGED storageVars
  /\ UNCHANGED <<geojsonFiles, existingNames, existingUrlMap, fileIndex, syncFailed, localFileSet>>
  /\ UNCHANGED <<engineVars, validatorVars, cacheVars, uploadVars, importVars, stagingVars>>

NextOlderSync ==
  \/ OlderListFiles \/ OlderSelectNames \/ OlderInsertFile \/ OlderSyncSummary
  \/ OtherClientInserts

SpecOlderSync == InitSync /\ [][NextOlderSync]_vars

----------------------------------------------------------------------------
(* The staging tools. syncProdToStaging (src/.dev/validate-csv.js lines     *)
(* 450-537), copyGeometries (src/copy-geometries.js), addChandlerToStaging  *)
(* (src/temp-add-chandler-staging.js) and deleteChandler (part_008). One    *)
(* of them is run on staging tables and a staging bucket that earlier runs  *)
(* have filled.                                                             *)

\* 'waymo-chandler-september-18-2025-boundary.geojson'
ChandlerFile == <<"waymo-chandler", "-", "september-18-2025", "-", "boundary", ".geojson">>

\* const event of addChandlerToStaging (lines 24-42); 2025-09-18 is day 3
ChandlerEvent ==
  Event("waymo-chandler", 3, "service_created",
        [NoData EXCEPT !.geometry_name = ChandlerFile,
                       !.vehicle_types = "Jaguar I-Pace", !.platform = "Chandler Flex",
                       !.fares = "Yes", !.direct_booking = "No",
                       !.supervision = "Autonomous", !.access = "Public"])

\* const geometryMeta (lines 87-92): the row is named with the extension
ChandlerMeta == StagingUrl(ChandlerFile)

\* rows with the rows of another insert added
Inserted(table, rows) ==
  [x \in DOMAIN table \cup DOMAIN rows |-> IF x \in DOMAIN rows THEN rows[x] ELSE table[x]]

\* the events tables the tools find
EventTablesBefore ==
  { <<>>,
    <<CsvRowToEvent(ZetaRow(1, "service_testing"))>>,
    <<CsvRowToEvent(CreatedRow)>>,
    <<CsvRowToEvent(ZetaRow(1, "service_testing")), ChandlerEvent, CsvRowToEvent(CreatedRow)>> }

\* the geometries tables the tools find: the row of the boundary file with
\* the URL of either bucket, and the row of addChandlerToStaging
GeometryTablesBefore ==
  { EmptyMap,
    Put(EmptyMap, RemoveGeojson(BoundaryFile), PublicUrl(BoundaryFile)),
    Put(EmptyMap, RemoveGeojson(BoundaryFile), StagingUrl(BoundaryFile)),
    Put(Put(EmptyMap, RemoveGeojson(BoundaryFile), StagingUrl(BoundaryFile)),
        ChandlerFile, ChandlerMeta) }

\* the buckets the tools find
BucketsOfFiles ==
  UNION {[S -> {"v1"}] : S \in SUBSET {BoundaryFile, ChandlerFile, SketchFile}}

\* the first step of each tool
StagingTools == {"select", "list", "insert event", "delete events"}

InitStaging ==
  /\ EngineNotRun
  /\ ValidatorNotRun
  /\ CacheNotRun
  /\ SyncNotRun
  /\ UploadNotRun
  /\ importRecords = <<>>
  /\ importEvents = <<>>
  /\ imported = 0
  /\ tableRequests = <<>>
  /\ ipc = "off"
  /\ eventsTable \in EventTablesBefore
  /\ geometryTable \in GeometryTablesBefore
  /\ geometryBucket \in {EmptyMap, [f \in {BoundaryFile, ChandlerFile} |-> "v1"]}
  /\ localFolder \in {[readable |-> TRUE, files |-> f] :
                        f \in {EmptyMap, [g \in {ChandlerFile} |-> "v2"],
                               [g \in {ChandlerFile} |-> "not json"]}}
  /\ apiFailure = FALSE
  /\ prodEventsTable \in {<<>>, <<CsvRowToEvent(CreatedRow)>>}
  /\ prodGeometryTable \in
       {EmptyMap, Put(EmptyMap, RemoveGeojson(BoundaryFile), PublicUrl(BoundaryFile))}
  /\ prodBucket \in {EmptyMap, [f \in {SketchFile} |-> "v1"],
                     [f \in {BoundaryFile, LotFile} |-> "v2"]}
  /\ prodEvents = <<>>
  /\ prodGeometries = EmptyMap
  /\ tpc \in StagingTools
  /\ pendingCalls = IF tpc = "select" THEN {"events", "geometries"} ELSE {}
  /\ callFailed = FALSE
  /\ copyFiles = <<>>
  /\ copyIndex = 0
  /\ fileData = <<>>
  /\ failCount = 0

\* what the staging tools leave alone
NotOfStaging ==
  <<engineVars, validatorVars, cacheVars, syncVars, uploadVars,
    importRecords, importEvents, imported, tableRequests, ipc>>

\* syncProdToStaging, lines 454-475: one of the two selects of the
\* Promise.all answers; after the second the errors are looked at (throw:
\* the catch exits with 1) and the two deletes are sent
SelectProduction ==
  /\ tpc = "select"
  /\ \E call \in pendingCalls, ok \in BOOLEAN :
       LET rest == pendingCalls \ {call}
           failed == callFailed \/ ~ok
       IN  /\ prodEvents' = IF call = "events" /\ ok THEN prodEventsTable ELSE prodEvents
           /\ prodGeometries' =
                IF call = "geometries" /\ ok THEN prodGeometryTable ELSE prodGeometries
           /\ apiFailure' = (apiFailure \/ ~ok)
           /\ IF rest # {}
              THEN pendingCalls' = rest /\ callFailed' = failed /\ UNCHANGED tpc
              ELSE IF failed
              THEN pendingCalls' = {} /\ callFailed' = failed /\ tpc' = "exit1"
              ELSE /\ pendingCalls' = {"events", "geometries"}
                   /\ callFailed' = FALSE
                   /\ tpc' = "delete"
  /\ UNCHANGED <<geometryTable, geometryBucket, localFolder, eventsTable>>
  /\ UNCHANGED <<prodEventsTable, prodGeometryTable, prodBucket>>
  /\ UNCHANGED <<copyFiles, copyIndex, fileData, failCount>>
  /\ UNCHANGED NotOfStaging

\* lines 477-487: one of the two deletes answers; after the second the
\* errors are looked at
ClearStaging ==
  /\ tpc = "delete"
  /\ \E call \in pendingCalls, ok \in BOOLEAN :
       LET rest == pendingCalls \ {call}
           failed == callFailed \/ ~ok
       IN  /\ eventsTable' = IF call = "events" /\ ok THEN <<>> ELSE eventsTable
           /\ geometryTable' = IF call = "geometries" /\ ok THEN EmptyMap ELSE geometryTable
           /\ apiFailure' = (apiFailure \/ ~ok)
           /\ pendingCalls' = rest
           /\ callFailed' = failed
           /\ tpc' = IF rest # {} THEN tpc
                     ELSE IF failed THEN "exit1" ELSE "copy events"
  /\ UNCHANGED <<geometryBucket, localFolder>>
  /\ UNCHANGED <<prodEventsTable, prodGeometryTable, prodBucket, prodEvents, prodGeometries>>
  /\ UNCHANGED <<copyFiles, copyIndex, fileData, failCount>>
  /\ UNCHANGED NotOfStaging

\* lines 489-498: every production event in one insert
CopyEvents ==
  /\ tpc = "copy events"
  /\ \/ /\ eventsTable' = eventsTable \o prodEvents
        /\ tpc' = "copy geometries"
        /\ UNCHANGED apiFailure
     \/ /\ apiFailure' = TRUE
        /\ tpc' = "exit1"
        /\ UNCHANGED eventsTable
  /\ UNCHANGED <<geometryTable, geometryBucket, localFolder>>
  /\ UNCHANGED <<prodEventsTable, prodGeometryTable, prodBucket, prodEvents, prodGeometries>>
  /\ UNCHANGED <<pendingCalls, callFailed, copyFiles, copyIndex, fileData, failCount>>
  /\ UNCHANGED NotOfStaging

\* lines 500-506: every production row, with the URL it has in production;
\* then the two counts are asked for
CopyGeometryRows ==
  /\ tpc = "copy geometries"
  /\ \/ /\ geometryTable' = Inserted(geometryTable, prodGeometries)
        /\ tpc' = "verify"
        /\ pendingCalls' = {"events", "geometries"}
        /\ UNCHANGED apiFailure
     \/ /\ apiFailure' = TRUE
        /\ tpc' = "exit1"
        /\ UNCHANGED <<geometryTable, pendingCalls>>
  /\ UNCHANGED <<geometryBucket, localFolder, eventsTable>>
  /\ UNCHANGED <<prodEventsTable, prodGeometryTable, prodBucket, prodEvents, prodGeometries>>
  /\ UNCHANGED <<callFailed, copyFiles, copyIndex, fileData, failCount>>
  /\ UNCHANGED NotOfStaging

\* lines 508-536: one of the two counts answers, with the count or with an
\* error (count null); after the second the counts are compared with what
\* was read from production
VerifyStaging ==
  /\ tpc = "verify"
  /\ \E call \in pendingCalls, ok \in BOOLEAN :
       LET rest == pendingCalls \ {call}
           matches == IF call = "events"
                      THEN Len(eventsTable) = Len(prodEvents)
                      ELSE Cardinality(DOMAIN geometryTable) = Cardinality(DOMAIN prodGeometries)
           failed == callFailed \/ ~ok \/ ~matches
       IN  /\ apiFailure' = (apiFailure \/ ~ok)
           /\ pendingCalls' = rest
           /\ callFailed' = failed
           /\ tpc' = IF rest # {} THEN tpc
                     ELSE IF failed THEN "exit1" ELSE "done"
  /\ UNCHANGED <<geometryTable, geometryBucket, localFolder, eventsTable>>
  /\ UNCHANGED <<prodEventsTable, prodGeometryTable, prodBucket, prodEvents, prodGeometries>>
  /\ UNCHANGED <<copyFiles, copyIndex, fileData, failCount>>
  /\ UNCHANGED NotOfStaging

\* copyGeometries, lines 40-54: the listing of the production bucket;
\* listError is thrown (exit 1); without files the function returns
ListProduction ==
  /\ tpc = "list"
  /\ \/ /\ apiFailure' = TRUE
        /\ tpc' = "exit1"
        /\ UNCHANGED copyFiles
     \/ /\ copyFiles' \in ListingsOf({f \in DOMAIN prodBucket : EndsWithGeojson(f)})
        /\ tpc' = IF copyFiles' = <<>> THEN "done" ELSE "download"
        /\ UNCHANGED apiFailure
  /\ UNCHANGED <<geometryTable, geometryBucket, localFolder, eventsTable>>
  /\ UNCHANGED <<prodEventsTable, prodGeometryTable, prodBucket, prodEvents, prodGeometries>>
  /\ UNCHANGED <<pendingCalls, callFailed, copyIndex, fileData, failCount>>
  /\ UNCHANGED NotOfStaging

\* lines 61-68, 83-86: the download of the next file; downloadError is
\* caught inside the loop
DownloadFile ==
  /\ tpc = "download"
  /\ copyIndex < Len(copyFiles)
  /\ \/ /\ fileData' = <<prodBucket[copyFiles[copyIndex + 1]]>>
        /\ tpc' = "upload"
        /\ UNCHANGED <<apiFailure, copyIndex, failCount>>
     \/ /\ apiFailure' = TRUE
        /\ failCount' = failCount + 1
        /\ copyIndex' = copyIndex + 1
        /\ UNCHANGED <<fileData, tpc>>
  /\ UNCHANGED <<geometryTable, geometryBucket, localFolder, eventsTable>>
  /\ UNCHANGED <<prodEventsTable, prodGeometryTable, prodBucket, prodEvents, prodGeometries>>
  /\ UNCHANGED <<pendingCalls, callFailed, copyFiles>>
  /\ UNCHANGED NotOfStaging

\* lines 70-86: the upload to the staging bucket, with upsert
UploadCopy ==
  /\ tpc = "upload"
  /\ \/ /\ geometryBucket' = Put(geometryBucket, copyFiles[copyIndex + 1], fileData[1])
        /\ UNCHANGED <<apiFailure, failCount>>
     \/ /\ apiFailure' = TRUE
        /\ failCount' = failCount + 1
        /\ UNCHANGED geometryBucket
  /\ copyIndex' = copyIndex + 1
  /\ fileData' = <<>>
  /\ tpc' = "download"
  /\ UNCHANGED <<geometryTable, localFolder, eventsTable>>
  /\ UNCHANGED <<prodEventsTable, prodGeometryTable, prodBucket, prodEvents, prodGeometries>>
  /\ UNCHANGED <<pendingCalls, callFailed, copyFiles>>
  /\ UNCHANGED NotOfStaging

\* lines 89-101
CopySummary ==
  /\ tpc = "download"
  /\ copyIndex = Len(copyFiles)
  /\ tpc' = IF failCount = 0 THEN "done" ELSE "exit1"
  /\ UNCHANGED <<storageVars, eventsTable>>
  /\ UNCHANGED <<prodEventsTable, prodGeometryTable, prodBucket, prodEvents, prodGeometries>>
  /\ UNCHANGED <<pendingCalls, callFailed, copyFiles, copyIndex, fileData, failCount>>
  /\ UNCHANGED NotOfStaging

\* addChandlerToStaging, lines 23-55: the event is inserted, whatever the
\* table holds; on eventError the function returns
InsertChandlerEvent ==
  /\ tpc = "insert event"
  /\ \/ /\ eventsTable' = Append(eventsTable, ChandlerEvent)
        /\ tpc' = "upload file"
        /\ UNCHANGED apiFailure
     \/ /\ apiFailure' = TRUE
        /\ tpc' = "done"
        /\ UNCHANGED eventsTable
  /\ UNCHANGED <<geometryTable, geometryBucket, localFolder>>
  /\ UNCHANGED <<prodEventsTable, prodGeometryTable, prodBucket, prodEvents, prodGeometries>>
  /\ UNCHANGED <<pendingCalls, callFailed, copyFiles, copyIndex, fileData, failCount>>
  /\ UNCHANGED NotOfStaging

\* lines 57-77: readFileSync throws when the file is not in ./geometries
\* and JSON.parse throws on a file that is not JSON (the promise is
\* rejected and the error is logged); the upload is made with upsert; on
\* uploadError the function returns
UploadChandlerFile ==
  /\ tpc = "upload file"
  /\ IF \/ ChandlerFile \notin DOMAIN localFolder.files
        \/ localFolder.files[ChandlerFile] = "not json"
     THEN /\ tpc' = "rejected"
          /\ UNCHANGED <<geometryBucket, apiFailure>>
     ELSE \/ /\ geometryBucket' =
                  Put(geometryBucket, ChandlerFile, localFolder.files[ChandlerFile])
             /\ tpc' = "insert row"
             /\ UNCHANGED apiFailure
          \/ /\ apiFailure' = TRUE
             /\ tpc' = "done"
             /\ UNCHANGED geometryBucket
  /\ UNCHANGED <<geometryTable, localFolder, eventsTable>>
  /\ UNCHANGED <<prodEventsTable, prodGeometryTable, prodBucket, prodEvents, prodGeometries>>
  /\ UNCHANGED <<pendingCalls, callFailed, copyFiles, copyIndex, fileData, failCount>>
  /\ UNCHANGED NotOfStaging

\* lines 79-108: the row of the file
InsertChandlerMeta ==
  /\ tpc = "insert row"
  /\ \/ geometryTable' = Put(geometryTable, ChandlerFile, ChandlerMeta) /\ UNCHANGED apiFailure
     \/ apiFailure' = TRUE /\ UNCHANGED geometryTable
  /\ tpc' = "done"
  /\ UNCHANGED <<geometryBucket, localFolder, eventsTable>>
  /\ UNCHANGED <<prodEventsTable, prodGeometryTable, prodBucket, prodEvents, prodGeometries>>
  /\ UNCHANGED <<pendingCalls, callFailed, copyFiles, copyIndex, fileData, failCount>>
  /\ UNCHANGED NotOfStaging

\* deleteChandler, part_008 lines 21-32: the events of waymo-chandler go;
\* an error is logged and the function goes on
DeleteChandlerEvents ==
  /\ tpc = "delete events"
  /\ \/ /\ eventsTable' = SelectSeq(eventsTable, LAMBDA e : e.aggregate_id # "waymo-chandler")
        /\ UNCHANGED apiFailure
     \/ apiFailure' = TRUE /\ UNCHANGED eventsTable
  /\ tpc' = "delete row"
  /\ UNCHANGED <<geometryTable, geometryBucket, localFolder>>
  /\ UNCHANGED <<prodEventsTable, prodGeometryTable, prodBucket, prodEvents, prodGeometries>>
  /\ UNCHANGED <<pendingCalls, callFailed, copyFiles, copyIndex, fileData, failCount>>
  /\ UNCHANGED NotOfStaging

\* lines 34-45
DeleteChandlerMeta ==
  /\ tpc = "delete row"
  /\ \/ geometryTable' = Without(geometryTable, {ChandlerFile}) /\ UNCHANGED apiFailure
     \/ apiFailure' = TRUE /\ UNCHANGED geometryTable
  /\ tpc' = "delete file"
  /\ UNCHANGED <<geometryBucket, localFolder, eventsTable>>
  /\ UNCHANGED <<prodEventsTable, prodGeometryTable, prodBucket, prodEvents, prodGeometries>>
  /\ UNCHANGED <<pendingCalls, callFailed, copyFiles, copyIndex, fileData, failCount>>
  /\ UNCHANGED NotOfStaging

\* lines 47-60
DeleteChandlerFile ==
  /\ tpc = "delete file"
  /\ \/ geometryBucket' = Without(geometryBucket, {ChandlerFile}) /\ UNCHANGED apiFailure
     \/ apiFailure' = TRUE /\ UNCHANGED geometryBucket
  /\ tpc' = "done"
  /\ UNCHANGED <<geometryTable, localFolder, eventsTable>>
  /\ UNCHANGED <<prodEventsTable, prodGeometryTable, prodBucket, prodEvents, prodGeometries>>
  /\ UNCHANGED <<pendingCalls, callFailed, copyFiles, copyIndex, fileData, failCount>>
  /\ UNCHANGED NotOfStaging

NextStaging ==
  \/ SelectProduction \/ ClearStaging \/ CopyEvents \/ CopyGeometryRows \/ VerifyStaging
  \/ ListProduction \/ DownloadFile \/ UploadCopy \/ CopySummary
  \/ InsertChandlerEvent \/ UploadChandlerFile \/ InsertChandlerMeta
  \/ DeleteChandlerEvents \/ DeleteChandlerMeta \/ DeleteChandlerFile

SpecStaging == InitStaging /\ [][NextStaging]_vars

----------------------------------------------------------------------------
(* upload-geometries.js (part_006), with STAGING unset                      *)

InitUpload ==
  /\ EngineNotRun
  /\ ValidatorNotRun
  /\ CacheNotRun
  /\ SyncNotRun
  /\ ImportNotRun
  /\ StagingNotRun
  /\ geometryTable = EmptyMap
  /\ geometryBucket \in FilesOf({"v1", "v2"})
  /\ localFolder \in
       {[readable |-> r, files |-> f] : r \in BOOLEAN, f \in FilesOf({"v1", "v2"})}
  /\ apiFailure = FALSE
  /\ localFiles = <<>>
  /\ existingFileNames = {}
  /\ uploadIndex = 0
  /\ uploaded = 0
  /\ skipped = 0
  /\ uploadFailed = 0
  /\ requests = <<>>
  /\ upc = "read"

\* lines 46-47, 114-117: readdirSync lists the folder, or throws and the
\* catch of the last lines exits with 1
ReadLocalFiles ==
  /\ upc = "read"
  /\ IF localFolder.readable
     THEN /\ localFiles' \in
               ListingsOf({f \in DOMAIN localFolder.files : EndsWithGeojson(f)})
          /\ upc' = "list"
     ELSE /\ upc' = "exit1"
          /\ UNCHANGED localFiles
  /\ UNCHANGED storageVars
  /\ UNCHANGED <<existingFileNames, uploadIndex, uploaded, skipped, uploadFailed, requests>>
  /\ UNCHANGED <<engineVars, validatorVars, cacheVars, syncVars, importVars, stagingVars>>

\* lines 52-63
ListBucket ==
  /\ upc = "list"
  /\ \/ \* listError: process.exit(1)
        /\ apiFailure' = TRUE
        /\ upc' = "exit1"
        /\ UNCHANGED existingFileNames
     \/ /\ existingFileNames' = DOMAIN geometryBucket
        /\ upc' = "upload"
        /\ UNCHANGED apiFailure
  /\ UNCHANGED <<geometryTable, geometryBucket, localFolder>>
  /\ UNCHANGED <<localFiles, uploadIndex, uploaded, skipped, uploadFailed, requests>>
  /\ UNCHANGED <<engineVars, validatorVars, cacheVars, syncVars, importVars, stagingVars>>

\* lines 72-96: one iteration of the for-loop; upload with upsert: true
\* writes the file over the one the bucket has
UploadFile ==
  /\ upc = "upload"
  /\ uploadIndex < Len(localFiles)
  /\ uploadIndex' = uploadIndex + 1
  /\ LET filename == localFiles[uploadIndex + 1]
         fileContent == localFolder.files[filename]
     IN  /\ requests' = Append(requests, filename)
         /\ \/ \* uploadError, or the call throws
               /\ uploadFailed' = uploadFailed + 1
               /\ apiFailure' = TRUE
               /\ UNCHANGED <<geometryBucket, uploaded>>
            \/ /\ geometryBucket' = Put(geometryBucket, filename, fileContent)
               /\ uploaded' = uploaded + 1
               /\ UNCHANGED <<uploadFailed, apiFailure>>
  /\ UNCHANGED <<geometryTable, localFolder>>
  /\ UNCHANGED <<localFiles, existingFileNames, skipped, upc>>
  /\ UNCHANGED <<engineVars, validatorVars, cacheVars, syncVars, importVars, stagingVars>>

\* lines 98-111
UploadSummary ==
  /\ upc = "upload"
  /\ uploadIndex = Len(localFiles)
  /\ upc' = IF uploadFailed = 0 THEN "done" ELSE "exit1"
  /\ UNCHANGED storageVars
  /\ UNCHANGED <<localFiles, existingFileNames, uploadIndex, uploaded, skipped,
                 uploadFailed, requests>>
  /\ UNCHANGED <<engineVars, validatorVars, cacheVars, syncVars, importVars, stagingVars>>

NextUpload == ReadLocalFiles \/ ListBucket \/ UploadFile \/ UploadSummary

SpecUpload == InitUpload /\ [][NextUpload]_vars

----------------------------------------------------------------------------
(* Vocabulary of the claims *)

\* the events the loop has consumed, the last of them, and what the loop had
\* built before it consumed that one
Processed == SubSeq(sortedEvents, 1, idx)
LastEvent == sortedEvents[idx]
Before == Project(SubSeq(sortedEvents, 1, idx - 1), geometryMap)

\* the indices of a service's emitted states, and of those without endDate
IndicesOf(all, s) == {i \in 1..Len(all) : all[i].serviceId = s}
OpenIndices(all, s) == {i \in IndicesOf(all, s) : all[i].endDate = <<>>}

\* the index of the service's state emitted last before index i (0 if none)
Predecessor(all, s, i) ==
  LET earlier == {j \in IndicesOf(all, s) : j < i}
  IN  IF earlier = {} THEN 0 ELSE Max(earlier)

StartTypes == {"service_testing", "service_announced", "service_created"}
SingleUpdateTypes == AttributeUpdateTypes \cup GeometryUpdateTypes

\* The lifecycle of section 4.1, read off an event list: a start event moves
\* the service to testing / announced / active, service_ended moves an active
\* service to ended, nothing else moves it.
RECURSIVE Lifecycle(_, _)
Lifecycle(list, s) ==
  IF list = <<>> THEN "none"
  ELSE LET earlier == Lifecycle(SubSeq(list, 1, Len(list) - 1), s)
           e == list[Len(list)]
       IN  IF e.aggregate_id # s THEN earlier
           ELSE CASE e.event_type = "service_testing"   -> "testing"
                  [] e.event_type = "service_announced" -> "announced"
                  [] e.event_type = "service_created"   -> "active"
                  [] e.event_type = "service_ended" /\ earlier = "active" -> "ended"
                  [] OTHER -> earlier

LifecycleBefore(s) == Lifecycle(SubSeq(sortedEvents, 1, idx - 1), s)

Live == {"testing", "announced", "active"}

----------------------------------------------------------------------------
(* C1: after any prefix of any event list, every serviceId has at most one  *)
(* emitted state without an endDate.                                        *)
C1_SingleOpenState ==
  \A s \in Services : Cardinality(OpenIndices(allStates, s)) <= 1

(* C2: per serviceId, in emission order, effectiveDate is non-decreasing,   *)
(* every endDate is >= the state's own effectiveDate, and a state's endDate *)
(* is <= the effectiveDate of the service's next state.                     *)
C2_OrderedNonOverlapping ==
  \A s \in Services :
    \A i \in IndicesOf(allStates, s) :
      /\ allStates[i].endDate # <<>> =>
           allStates[i].endDate[1] >= allStates[i].effectiveDate
      /\ \A j \in IndicesOf(allStates, s) :
           Predecessor(allStates, s, j) = i =>
             /\ allStates[i].effectiveDate <= allStates[j].effectiveDate
             /\ allStates[i].endDate # <<>> =>
                  allStates[i].endDate[1] <= allStates[j].effectiveDate

\* the state key an update event is about, and the value the event carries
\* for it (for a geometry update: the reference)
ClaimedAttribute(e) ==
  CASE e.event_type = "fares_policy_changed"   -> "fares"
    [] e.event_type = "access_policy_changed"  -> "access"
    [] e.event_type = "vehicle_types_updated"  -> "vehicleTypes"
    [] e.event_type = "platform_updated"       -> "platform"
    [] e.event_type = "supervision_updated"    -> "supervision"
    [] e.event_type = "service_model_updated"  -> "serviceModel"
    [] e.event_type = "fleet_partner_changed"  -> "fleetPartner"
    [] e.event_type = "direct_booking_updated" -> "directBooking"
    [] e.event_type \in GeometryUpdateTypes    -> "geojsonPath"

ClaimedValue(e) ==
  CASE e.event_type = "fares_policy_changed"   -> e.event_data.new_fares
    [] e.event_type = "access_policy_changed"  -> e.event_data.new_access
    [] e.event_type = "vehicle_types_updated"  -> e.event_data.new_vehicle_types
    [] e.event_type = "platform_updated"       -> e.event_data.new_platform
    [] e.event_type = "supervision_updated"    -> e.event_data.new_supervision
    [] e.event_type = "service_model_updated"  -> e.event_data.new_service_model
    [] e.event_type = "fleet_partner_changed"  -> e.event_data.new_fleet_partner
    [] e.event_type = "direct_booking_updated" -> e.event_data.new_direct_booking
    [] e.event_type \in GeometryUpdateTypes    -> e.event_data.geometry_name

\* the events k..idx are update events of distinct kinds for one service and
\* one date
SameDayRun(k) ==
  /\ \A i \in k..idx :
       /\ sortedEvents[i].event_type \in SingleUpdateTypes
       /\ sortedEvents[i].aggregate_id = sortedEvents[k].aggregate_id
       /\ sortedEvents[i].event_date = sortedEvents[k].event_date
  /\ \A i, j \in k..idx : i # j => sortedEvents[i].event_type # sortedEvents[j].event_type

(* C3: for a live service, N >= 1 update events of distinct kinds that all  *)
(* carry the date d add exactly one state with effectiveDate d (none if the *)
(* open state already has effectiveDate d), and the open state for d        *)
(* carries the new value of every one of the N events.                      *)
C3_SameDayCoalescing ==
  \A k \in 1..idx :
    LET s == sortedEvents[k].aggregate_id
        d == GetTime(sortedEvents[k].event_date)
        pre == Project(SubSeq(sortedEvents, 1, k - 1), geometryMap)
        open == LastOpenIndex(pre.all, s)
        already == open # 0 /\ pre.all[open].effectiveDate = d
        now == LastOpenIndex(allStates, s)
    IN  (SameDayRun(k) /\ Lifecycle(SubSeq(sortedEvents, 1, k - 1), s) \in Live) =>
          /\ Len(allStates) = Len(pre.all) + (IF already THEN 0 ELSE 1)
          /\ ~already => allStates[Len(allStates)].effectiveDate = d
          /\ now # 0
          /\ allStates[now].effectiveDate = d
          /\ \A i \in k..idx :
               allStates[now][ClaimedAttribute(sortedEvents[i])] = ClaimedValue(sortedEvents[i])

(* C4: when an update event dated d is applied to a live service: if the    *)
(* open state has effectiveDate d, the list keeps its length and no state   *)
(* gains an endDate; otherwise the open state gains endDate d and exactly   *)
(* one state, with effectiveDate d, is appended.                            *)
C4_InPlaceOrCloseAndAppend ==
  (idx >= 1 /\ LastEvent.event_type \in SingleUpdateTypes
            /\ LifecycleBefore(LastEvent.aggregate_id) \in Live) =>
    LET s == LastEvent.aggregate_id
        d == GetTime(LastEvent.event_date)
        open == LastOpenIndex(Before.all, s)
    IN  IF open # 0 /\ Before.all[open].effectiveDate = d
        THEN /\ Len(allStates) = Len(Before.all)
             /\ \A i \in 1..Len(allStates) : allStates[i].endDate = Before.all[i].endDate
        ELSE /\ Len(allStates) = Len(Before.all) + 1
             /\ allStates[Len(allStates)].effectiveDate = d
             /\ open # 0
             /\ allStates[open].endDate = <<d>>

\* the keys of a state that describe the service
LogicalKeys == AttrKeys \cup {"geojsonPath", "area_square_miles", "coordinates"}

\* what a lifecycle payload sets for a key of the state (Undefined / <<>> if
\* it does not set it)
PayloadValue(data, key) ==
  CASE key = "vehicleTypes"   -> data.vehicle_types
    [] key = "directBooking"  -> data.direct_booking
    [] key = "serviceModel"   -> data.service_model
    [] key = "fleetPartner"   -> data.fleet_partner
    [] key = "expectedLaunch" -> data.expected_launch
    [] key = "geojsonPath"    -> data.geometry_name
    [] key \in {"area_square_miles", "coordinates"} -> <<>>
    [] OTHER -> data[key]

Unset(key) == IF key \in AttrKeys THEN Undefined ELSE <<>>

\* the payload sets the key (the geometry reference sets area and coordinates
\* with it)
PayloadSets(data, key) ==
  IF key \in {"area_square_miles", "coordinates"}
  THEN data.geometry_name # <<>>
  ELSE PayloadValue(data, key) # Unset(key)

(* C5: when service_created or service_announced is processed for a service *)
(* that has a testing or announced state, every attribute the previous      *)
(* state carried and the payload does not set keeps its value on the new    *)
(* state, and every attribute the payload sets takes the payload's value.   *)
C5_CreatedInherits ==
  (idx >= 1 /\ LastEvent.event_type \in {"service_created", "service_announced"}
            /\ LifecycleBefore(LastEvent.aggregate_id) \in {"testing", "announced"}) =>
    LET s == LastEvent.aggregate_id
        new == allStates[Len(allStates)]
        prev == Before.all[Predecessor(allStates, s, Len(allStates))]
        data == LastEvent.event_data
    IN  \A key \in LogicalKeys :
          IF PayloadSets(data, key)
          THEN key \in AttrKeys \cup {"geojsonPath"} => new[key] = PayloadValue(data, key)
          ELSE prev[key] # Unset(key) => new[key] = prev[key]

(* C8: service_ended dated d for an active service sets endDate = d on the  *)
(* service's open state, appends no state, and leaves the service with no   *)
(* open state.                                                              *)
C8_EndedClosesService ==
  (idx >= 1 /\ LastEvent.event_type = "service_ended"
            /\ LifecycleBefore(LastEvent.aggregate_id) = "active") =>
    LET s == LastEvent.aggregate_id
        d == GetTime(LastEvent.event_date)
        open == LastOpenIndex(Before.all, s)
    IN  /\ open # 0 => allStates[open].endDate = <<d>>
        /\ Len(allStates) = Len(Before.all)
        /\ OpenIndices(allStates, s) = {}

StatusRank(status) ==
  CASE status = "testing" -> 1 [] status = "announced" -> 2 [] status = "active" -> 3
    [] OTHER -> 4

(* C9: per serviceId, the status values of the emitted states in emission   *)
(* order never move backward in the order testing < announced < active.     *)
C9_StatusMonotone ==
  \A s \in Services :
    \A i, j \in IndicesOf(allStates, s) :
      i < j => StatusRank(allStates[i].status) <= StatusRank(allStates[j].status)

\* the number of logical attributes two states differ in: every key that
\* describes the service, status and isActive, the three geometry keys
\* counting as one attribute; id, effectiveDate, lastUpdated and endDate
\* aside
LogicalDifferences(a, b) ==
  Cardinality({key \in AttrKeys \cup {"serviceId", "status", "isActive"} : a[key] # b[key]})
  + (IF \E key \in {"geojsonPath", "area_square_miles", "coordinates"} : a[key] # b[key]
     THEN 1 ELSE 0)

\* the last event was a single-attribute update and appended a state
UpdateAppended ==
  /\ idx >= 1
  /\ LastEvent.event_type \in SingleUpdateTypes
  /\ Len(allStates) = Len(Before.all) + 1

(* C6, as stated: every state appended by a single-attribute update event   *)
(* differs from the immediately preceding state of the same service in      *)
(* exactly one logical attribute.                                           *)
C6_ExactlyOneDifference ==
  UpdateAppended =>
    LET s == LastEvent.aggregate_id
        new == allStates[Len(allStates)]
        pred == Predecessor(allStates, s, Len(allStates))
    IN  pred # 0 /\ LogicalDifferences(new, allStates[pred]) = 1

(* C6, amended: every state appended by a single-attribute update event is  *)
(* the service's current state (the state it is cloned from) with the       *)
(* event's attribute overwritten: it differs from that state in exactly one *)
(* logical attribute when the event's value differs from the value held,    *)
(* and in none when the update repeats the value.                           *)
C6_AtMostOneDifference ==
  UpdateAppended =>
    LET s == LastEvent.aggregate_id
        new == allStates[Len(allStates)]
        current == Deref(Before.all, Before.cur[s], DefaultState)
        redundant == current[ClaimedAttribute(LastEvent)] = ClaimedValue(LastEvent)
    IN  LogicalDifferences(new, current) = (IF redundant THEN 0 ELSE 1)

\* an update that repeats the value has appended a state, and so has an
\* update whose payload names a second attribute
C6_Witness ==
  /\ UpdateAppended
  /\ \E k \in 1..(idx - 1) :
       /\ sortedEvents[k].event_type = "access_policy_changed"
       /\ sortedEvents[k].event_data.fares = "Yes"
       /\ Len(Project(SubSeq(sortedEvents, 1, k), geometryMap).all)
            = Len(Project(SubSeq(sortedEvents, 1, k - 1), geometryMap).all) + 1
  /\ LET current == Deref(Before.all, Before.cur[LastEvent.aggregate_id], DefaultState)
     IN  current[ClaimedAttribute(LastEvent)] = ClaimedValue(LastEvent)

(* C7: for the literal scenario the projection returns exactly three        *)
(* states: testing [2024-01-01, 2024-03-01) with platform TestApp; active   *)
(* [2024-03-01, 2024-06-01) with vehicles ModelX, fares No, access Public;  *)
(* active [2024-06-01, 2025-01-01) with fares Yes and everything else       *)
(* inherited; and no state is left without an endDate.                      *)
C7_Scenario ==
  (pc = "done" /\ events = ScenarioEvents) =>
    /\ Len(allStates) = 3
    /\ \A i \in 1..3 : allStates[i].serviceId = ServiceA
    /\ allStates[1].status = "testing"
    /\ allStates[1].effectiveDate = 20240101
    /\ allStates[1].endDate = <<20240301>>
    /\ allStates[1].platform = "TestApp"
    /\ allStates[2].status = "active"
    /\ allStates[2].effectiveDate = 20240301
    /\ allStates[2].endDate = <<20240601>>
    /\ allStates[2].vehicleTypes = "ModelX"
    /\ allStates[2].fares = "No"
    /\ allStates[2].access = "Public"
    /\ allStates[3].status = "active"
    /\ allStates[3].effectiveDate = 20240601
    /\ allStates[3].endDate = <<20250101>>
    /\ allStates[3].fares = "Yes"
    /\ \A key \in (LogicalKeys \cup {"isActive"}) \ {"fares"} :
         allStates[3][key] = allStates[2][key]
    /\ \A s \in Services : OpenIndices(allStates, s) = {}

C7_Witness == pc = "done" /\ events = ScenarioEvents /\ idx = 5

\* the last event is one the service's lifecycle does not admit
NotAdmitted ==
  /\ idx >= 1
  /\ \/ /\ LastEvent.event_type \in SingleUpdateTypes
        /\ LifecycleBefore(LastEvent.aggregate_id) \in {"none", "ended"}
     \/ /\ LastEvent.event_type = "service_ended"
        /\ LifecycleBefore(LastEvent.aggregate_id) # "active"

(* C10: an update event for a service with no lifecycle yet or already      *)
(* ended, and a service_ended for a service that is not active, append no   *)
(* state and change no field of any emitted state.                          *)
C10_NotAdmittedIsNoOp ==
  NotAdmitted => allStates = Before.all

\* an update has been processed for a service that had ended, while the
\* emitted list holds that service's states
C10_Witness ==
  /\ NotAdmitted
  /\ LastEvent.event_type \in SingleUpdateTypes
  /\ LifecycleBefore(LastEvent.aggregate_id) = "ended"
  /\ IndicesOf(allStates, LastEvent.aggregate_id) # {}

----------------------------------------------------------------------------
\* the events of a list that carry the date d, in the list's order
OnDay(list, d) == SelectSeq(list, LAMBDA e : e.event_date = d)

\* two events of one service, one kind and one date
SameGroup(e, f) ==
  /\ e.aggregate_id = f.aggregate_id
  /\ e.event_type = f.event_type
  /\ e.event_date = f.event_date

(* C13: the events are applied in ascending date order and events of one    *)
(* date in their input order; once the last of the same-date update events  *)
(* of one kind for a live service is applied, the service has an open state *)
(* and it carries the value of the event that comes last in the input.      *)
C13_LaterValueOnOpenState ==
  pc \in {"loop", "done"} =>
    /\ Len(sortedEvents) = Len(events)
    /\ \A i, j \in 1..Len(sortedEvents) :
         i < j => GetTime(sortedEvents[i].event_date) <= GetTime(sortedEvents[j].event_date)
    /\ \A d \in {events[i].event_date : i \in 1..Len(events)} :
         OnDay(sortedEvents, d) = OnDay(events, d)
    /\ (pc = "loop" /\ idx >= 1 /\ LastEvent.event_type \in SingleUpdateTypes
                    /\ LifecycleBefore(LastEvent.aggregate_id) \in Live) =>
         LET s == LastEvent.aggregate_id
             group == {j \in 1..Len(events) : SameGroup(events[j], LastEvent)}
             rest == {k \in (idx + 1)..Len(sortedEvents) : SameGroup(sortedEvents[k], LastEvent)}
             value == ClaimedValue(events[Max(group)])
             attr == ClaimedAttribute(LastEvent)
             open == LastOpenIndex(allStates, s)
         IN  rest = {} =>
               /\ open # 0
               /\ allStates[open][attr] = value

----------------------------------------------------------------------------
\* the states of a list that belong to a service, and the events of a list
\* that do, in the list's order
StatesOf(all, s) == SelectSeq(all, LAMBDA state : state.serviceId = s)
EventsOf(list, s) == SelectSeq(list, LAMBDA e : e.aggregate_id = s)

(* C15: the states emitted for a service, their order and all their fields, *)
(* are those the projection emits when the input holds that service's       *)
(* events only.                                                             *)
C15_ServicesIndependent ==
  \A s \in Services :
    LET alone == Project(EventsOf(Processed, s), geometryMap).all
    IN  StatesOf(allStates, s) = IF pc = "done" THEN DefaultStatus(alone) ELSE alone

\* events of the other service lie between two events of a service, and both
\* services have states, one of them an open one
C15_Witness ==
  /\ \E i, j, k \in 1..idx :
       /\ i < j /\ j < k
       /\ sortedEvents[i].aggregate_id = ServiceA
       /\ sortedEvents[j].aggregate_id = ServiceB
       /\ sortedEvents[k].aggregate_id = ServiceA
  /\ Len(StatesOf(allStates, ServiceA)) >= 2
  /\ Len(StatesOf(allStates, ServiceB)) >= 1
  /\ OpenIndices(allStates, ServiceB) # {}

----------------------------------------------------------------------------
(* C16: after a vehicle_types_updated or platform_updated event is applied  *)
(* to a live service, the service has an open state and its vehicles /      *)
(* platform value is exactly the event's value, whatever the attribute held *)
(* before.                                                                  *)
C16_OpenStateHoldsValue ==
  (idx >= 1 /\ LastEvent.event_type \in {"vehicle_types_updated", "platform_updated"}
            /\ LifecycleBefore(LastEvent.aggregate_id) \in Live) =>
    LET s == LastEvent.aggregate_id
        attr == ClaimedAttribute(LastEvent)
        open == LastOpenIndex(allStates, s)
    IN  /\ open # 0
        /\ allStates[open][attr] = ClaimedValue(LastEvent)

----------------------------------------------------------------------------
\* the event validateServiceTimeline visits next
VisitedNext == TimelineEvents[eventIndex + 1]

\* the kinds a service's timeline may start with
StartEventTypes == {"service_created", "service_testing", "service_announced"}

\* validateCSV has gone over every service's timeline to its end
AllTimelinesVisited ==
  /\ timeline = Len(serviceEvents)
  /\ timeline >= 1 => eventIndex = Len(TimelineEvents)

(* C11: when the earliest event of a service is not a start kind, the       *)
(* validator records one error for that event's line and the event changes  *)
(* no tracked attribute; the validation goes on with the next event of the  *)
(* service, and when validateCSV gives its verdict every service's timeline *)
(* has been visited to its end.                                             *)
C11_FirstEventMustBeStart ==
  /\ [][(ValidateEvent /\ eventIndex = 0
                       /\ VisitedNext.row.event_type \notin StartEventTypes) =>
          /\ ERRORS' = Append(ERRORS, Msg(VisitedNext.lineNum, "First event must be a start"))
          /\ WARNINGS' = WARNINGS
          /\ timelineState' = timelineState
          /\ hasServiceCreated' = hasServiceCreated
          /\ eventIndex' = 1 /\ timeline' = timeline /\ vpc' = "timelines"]_vars
  /\ []((vpc = "done" /\ serviceEvents # <<>>) => AllTimelinesVisited)

\* a service whose earliest event was an update has had that event and the
\* one after it visited, and another service's timeline was visited before
C11_Witness ==
  /\ vpc = "timelines"
  /\ timeline = 2
  /\ eventIndex = 2
  /\ TimelineEvents[1].row.event_type \notin StartEventTypes
  /\ \E k \in 1..Len(ERRORS) :
       ERRORS[k] = Msg(TimelineEvents[1].lineNum, "First event must be a start")

----------------------------------------------------------------------------
\* a service_created of the service was visited before the event visited next
CreatedVisitedBefore ==
  \E k \in 1..eventIndex : TimelineEvents[k].row.event_type = "service_created"

(* C12: a service_testing or service_announced event that comes after a     *)
(* service_created event of the same service makes the validator record one *)
(* error for its line and leaves every tracked attribute, the status        *)
(* included, as it was.                                                     *)
C12_NoStartAfterCreated ==
  [][(ValidateEvent /\ VisitedNext.row.event_type \in {"service_testing", "service_announced"}
                    /\ CreatedVisitedBefore) =>
       /\ ERRORS' = Append(ERRORS, Msg(VisitedNext.lineNum, "cannot occur after service_created"))
       /\ WARNINGS' = WARNINGS
       /\ timelineState' = timelineState]_vars

\* the service was created with a platform and no status, and a later
\* service_testing row naming another platform has been visited
C12_Witness ==
  /\ vpc = "timelines"
  /\ timeline >= 1
  /\ eventIndex = 2
  /\ TimelineEvents[1].row.event_type = "service_created"
  /\ TimelineEvents[2].row.event_type = "service_testing"
  /\ TimelineEvents[2].row.platform \notin {"", timelineState.platform}
  /\ timelineState.status = Undefined
  /\ ERRORS # <<>>

----------------------------------------------------------------------------
\* the update kinds whose column validateServiceTimeline tracks
ValidatedUpdateTypes == TrackedUpdateTypes \cup {"geometry_updated"}

\* the column an update kind of the validator carries its value in
ValidatedColumn(eventType) ==
  IF eventType = "geometry_updated" THEN "geometry_file" ELSE UpdatedColumn(eventType)

\* the event visited next is an update whose value is the value the
\* validator holds for the attribute
RedundantVisit ==
  /\ ValidateEvent
  /\ eventIndex >= 1
  /\ VisitedNext.row.event_type \in ValidatedUpdateTypes
  /\ LET column == ValidatedColumn(VisitedNext.row.event_type)
     IN  VisitedNext.row[column] = timelineState[column]

\* what validateGeometryFilename says about the file of the event visited next
NamedNext ==
  IF VisitedNext.row.event_type = "geometry_updated"
  THEN ValidateGeometryFilename(VisitedNext.lineNum, VisitedNext.row.geometry_file,
                                VisitedNext.serviceId)
  ELSE NoDiagnostics

HasMessage(list, message) == \E k \in 1..Len(list) : list[k].message = message

(* C17: an update whose value equals the attribute's current value is       *)
(* reported as a warning and adds no error, for every update kind.          *)
C17_RedundantIsWarning ==
  [][RedundantVisit =>
       /\ ERRORS' = ERRORS \o NamedNext.errors
       /\ Len(WARNINGS') > Len(WARNINGS)]_vars

----------------------------------------------------------------------------
\* the kinds the branches of buildServiceAreasFromEvents name
EngineEventTypes ==
  {"service_testing", "service_announced", "service_created", "service_ended"}
    \cup GeometryUpdateTypes \cup UpdateTypes

\* the rows of events.csv whose kind the engine does not handle
UnhandledRows == {i \in 1..Len(records) : records[i].event_type \notin EngineEventTypes}

SameService(a, b) == ServiceIdOf(a.company, a.city) = ServiceIdOf(b.company, b.city)

\* row i is the earliest event of its service: no row of the service has an
\* earlier date, or the same date and an earlier line
EarliestOfService(i) ==
  \A j \in 1..Len(records) :
    (j # i /\ SameService(records[i], records[j])) =>
      \/ records[j].date > records[i].date
      \/ records[j].date = records[i].date /\ j > i

\* validateCSV has read events.csv and has given its verdict
Validated == vpc = "done" /\ ~HasMessage(ERRORS, "Failed to read/parse CSV")

Range(list) == {list[k] : k \in 1..Len(list)}

Count(list, e) == Cardinality({k \in 1..Len(list) : list[k] = e})

\* the engine's iteration over an event of a kind it does not handle appends
\* no state and changes no state
UnhandledChangesNothing ==
  [][(IterateList /\ sortedEvents[idx + 1].event_type \notin EngineEventTypes) =>
       /\ allStates' = allStates
       /\ currentServiceStates' = currentServiceStates]_vars

\* every row of an unhandled kind is in the events list of the cache, as
\* often as it is in events.csv
UnhandledPassedThrough ==
  cacheData # <<>> =>
    \A i \in UnhandledRows :
      Count(cacheData[1].events, CsvRowToEvent(records[i]))
        = Count(EventsTable(records), CsvRowToEvent(records[i]))

(* C18 as stated: an event of a kind the engine does not handle appends no  *)
(* state and changes no emitted state, stays in the events list of the      *)
(* cache, and is reported by the validator as a warning.                    *)
C18_UnknownKindWarned ==
  /\ UnhandledChangesNothing
  /\ [] UnhandledPassedThrough
  /\ [](Validated =>
          \A i \in UnhandledRows : Msg(i + 1, "Unknown event type") \in Range(WARNINGS))

(* C18 amended: an event of a kind the engine does not handle appends no    *)
(* state and changes no emitted state and stays in the events list of the   *)
(* cache; the validator reports it as a warning, unless it is the earliest  *)
(* event of its service: then it reports it as an error (the first event    *)
(* must be a start kind) and gives no warning for it.                       *)
C18_UnknownKindWarnedUnlessFirst ==
  /\ UnhandledChangesNothing
  /\ [] UnhandledPassedThrough
  /\ [](Validated =>
          \A i \in UnhandledRows :
            IF EarliestOfService(i)
            THEN /\ Msg(i + 1, "First event must be a start") \in Range(ERRORS)
                 /\ \A k \in 1..Len(WARNINGS) : WARNINGS[k].lineNum # i + 1
            ELSE /\ Msg(i + 1, "Unknown event type") \in Range(WARNINGS)
                 /\ \A k \in 1..Len(ERRORS) : ERRORS[k].lineNum # i + 1)

\* the cache has been built from a file in which a service is created and
\* then has an event of a kind nobody names: the validator has warned, the
\* engine has emitted the one state of the service_created, and the event is
\* in the cache
C18_Witness ==
  /\ Validated
  /\ cacheData # <<>>
  /\ \E i \in UnhandledRows :
       /\ ~EarliestOfService(i)
       /\ Msg(i + 1, "Unknown event type") \in Range(WARNINGS)
       /\ \E k \in 1..Len(cacheData[1].events) :
            cacheData[1].events[k] = CsvRowToEvent(records[i])
  /\ Len(cacheData[1].service_areas) = 1

----------------------------------------------------------------------------
\* the geometries whose fetch failed, by their place in geometriesWithData
FailedFetches == {k \in 1..Len(geometriesWithData) : geometriesWithData[k].geojson_data = <<>>}

FailedNames == {geometriesWithData[k].geometry_name : k \in FailedFetches}

\* the states buildServiceAreasFromEvents returns for the events of the
\* cache when every geometry of the table is loaded
EmittedWhenAllLoaded ==
  DefaultStatus(Project(SortEvents(events),
                        [name \in {GeometriesTable[k].geometry_name :
                                     k \in 1..Len(GeometriesTable)} |-> 3]).all)

WithoutArea(state) == [state EXCEPT !.area_square_miles = <<>>]

(* C19: when the fetch of a geometry fails (the promise is rejected, the    *)
(* response is not OK, or its body cannot be read as JSON), the failure is  *)
(* recorded with the error message of that failure,                         *)
(* rebuildCache throws for no other reason than a failed upload, and the    *)
(* cache it assembles counts the geometry in failed_geometries, lists it    *)
(* with null data and the error message, and holds the same states as when  *)
(* every geometry is loaded, the area aside; the states that reference the  *)
(* failed geometry have area_square_miles = null.                           *)
C19_FetchFailureTolerated ==
  /\ \A k \in FailedFetches :
       geometriesWithData[k].error \in {"fetch failed", "HTTP 404", "Unexpected token"}
  /\ (rpc = "thrown" /\ FailedFetches # {}) => rebuildError = "upload error"
  /\ cacheData # <<>> =>
       LET cache == cacheData[1]
       IN  /\ cache.metadata.export_stats.failed_geometries = Cardinality(FailedFetches)
           /\ \A k \in FailedFetches :
                cache.geometries[k] =
                  [geometryName |-> geometriesMeta[k].geometry_name,
                   storageUrl |-> geometriesMeta[k].storage_url,
                   geojsonData |-> <<>>,
                   error |-> geometriesWithData[k].error]
           /\ Len(cache.service_areas) = Len(EmittedWhenAllLoaded)
           /\ \A j \in 1..Len(cache.service_areas) :
                /\ WithoutArea(cache.service_areas[j]) = WithoutArea(EmittedWhenAllLoaded[j])
                /\ cache.service_areas[j].geojsonPath \in FailedNames =>
                     cache.service_areas[j].area_square_miles = <<>>

\* rebuildCache has returned true after the fetch of the boundary file was
\* answered with 404 and the fetch of the other file was rejected; the cache
\* it uploaded holds a state for each of the two files
C19_Witness ==
  /\ rpc = "done"
  /\ storage.main = cacheData
  /\ {geometriesWithData[k].error : k \in FailedFetches} = {"fetch failed", "HTTP 404"}
  /\ \A name \in FailedNames :
       \E j \in 1..Len(cacheData[1].service_areas) :
         cacheData[1].service_areas[j].geojsonPath = name

----------------------------------------------------------------------------
(* C20: at every point of the projection, each emitted state's              *)
(* area_square_miles is the area the geometry map holds for the state's     *)
(* geojsonPath, and it is null exactly when the map has no entry for that   *)
(* geojsonPath.                                                             *)
C20_AreaFromMap ==
  \A i \in 1..Len(allStates) :
    IF allStates[i].geojsonPath \in DOMAIN geometryMap
    THEN allStates[i].area_square_miles = <<geometryMap[allStates[i].geojsonPath]>>
    ELSE allStates[i].area_square_miles = <<>>

----------------------------------------------------------------------------
(* C21: at every point of the projection, an emitted state has coordinates  *)
(* exactly when its geojsonPath is an inline "longitude,latitude" literal,  *)
(* and then they are the literal's [longitude, latitude]; a state whose     *)
(* geojsonPath names a boundary file has no coordinates.                    *)
C21_CoordinatesOfLiteral ==
  \A i \in 1..Len(allStates) :
    allStates[i].coordinates = ParseInlineCoordinates(allStates[i].geojsonPath)

----------------------------------------------------------------------------
\* the rows of events.csv that lack company, city or date
IncompleteLines ==
  {i \in 1..Len(records) :
     records[i].company = "" \/ records[i].city = "" \/ records[i].date = 0}

\* the places <<g, k>> of the service timelines that hold the row of line i+1
PlacesOf(i) ==
  {p \in UNION {{<<g, k>> : k \in 1..Len(serviceEvents[g].events)} :
                  g \in 1..Len(serviceEvents)} :
     serviceEvents[p[1]].events[p[2]].lineNum = i + 1}

(* C22: a row with an empty company, city or date is reported as an error   *)
(* and is in no service timeline; every other row is in the timeline of its *)
(* service, once, and when validateCSV gives its verdict every timeline has *)
(* been visited to its end.                                                 *)
C22_IncompleteRowsLeftOut ==
  /\ (vpc \in {"timelines", "done"} /\ ~HasMessage(ERRORS, "Failed to read/parse CSV")) =>
       \A i \in 1..Len(records) :
         IF i \in IncompleteLines
         THEN /\ Msg(i + 1, "Missing required fields") \in Range(ERRORS)
              /\ PlacesOf(i) = {}
         ELSE /\ Cardinality(PlacesOf(i)) = 1
              /\ \A p \in PlacesOf(i) :
                   /\ serviceEvents[p[1]].events[p[2]].row = records[i]
                   /\ serviceEvents[p[1]].serviceId
                        = ServiceIdOf(records[i].company, records[i].city)
  /\ Validated => AllTimelinesVisited

\* validateCSV has given its verdict on a file whose first row lacks a
\* field and whose later rows belong to two services
C22_Witness ==
  /\ Validated
  /\ Len(records) = 3
  /\ 1 \in IncompleteLines
  /\ Len(serviceEvents) = 2
  /\ HasMessage(ERRORS, "Missing required fields")

----------------------------------------------------------------------------
(* C23: validateCSV returns true, and the process exits with code 0,        *)
(* exactly when no error was recorded during the run: warnings alone never  *)
(* make it fail, and one error always does.                                 *)
C23_ValidExactlyWithoutErrors ==
  vpc = "done" =>
    /\ isValid \in BOOLEAN
    /\ isValid <=> ERRORS = <<>>
    /\ ExitCode = 0 <=> ERRORS = <<>>

\* validateCSV has returned true for a file it gave two warnings for
C23_Witness ==
  /\ vpc = "done"
  /\ Len(WARNINGS) >= 2
  /\ ERRORS = <<>>
  /\ isValid = TRUE
  /\ ExitCode = 0

----------------------------------------------------------------------------
\* the two lists hold the same events, each as often as the other
SameEvents(a, b) ==
  /\ Len(a) = Len(b)
  /\ \A k \in 1..Len(a) : Count(a, a[k]) = Count(b, a[k])

(* C24: for any event list, of any kinds, in any order, for any mix of      *)
(* services, buildServiceAreasFromEvents returns a state list; each         *)
(* iteration consumes one event, and by the return every event of the list  *)
(* has been consumed once.                                                  *)
C24_EveryEventConsumed ==
  /\ <>(pc = "done")
  /\ [][IterateList => idx' = idx + 1]_vars
  /\ [](pc = "done" =>
          /\ Len(returned) = 1
          /\ idx = Len(events)
          /\ SameEvents(sortedEvents, events))

\* the function has returned for a list of two services whose first event
\* is of a kind no branch names and was given last
C24_Witness ==
  /\ pc = "done"
  /\ idx = 2
  /\ sortedEvents[1].event_type = "service_paused"
  /\ events[2].event_type = "service_paused"
  /\ {sortedEvents[k].aggregate_id : k \in 1..2} = Services
  /\ Len(returned) = 1

----------------------------------------------------------------------------
\* the most recently emitted state of service s that has no endDate, as an
\* index into the emitted list (0 if the service has none)
MostRecentOpen(all, s) ==
  IF OpenIndices(all, s) = {} THEN 0 ELSE Max(OpenIndices(all, s))

\* the emitted states that differ after the step from what they were before
Touched == {i \in 1..Len(allStates) : allStates'[i] # allStates[i]}

(* C25: whenever an event closes a state or updates one in place, the state *)
(* it touches is the most recently emitted state of the event's service     *)
(* that has no endDate; no other emitted state is modified by that event.   *)
C25_TouchesLastOpenOnly ==
  [][idx' = idx + 1 =>
       /\ Len(allStates') >= Len(allStates)
       /\ Touched \subseteq
            {MostRecentOpen(allStates, sortedEvents'[idx'].aggregate_id)}]_vars

\* service_created has closed the second of two open testing states of the
\* service and left the first open
C25_Witness ==
  /\ idx = 3
  /\ \A k \in 1..3 : sortedEvents[k].aggregate_id = ServiceA
  /\ sortedEvents[1].event_type = "service_testing"
  /\ sortedEvents[2].event_type = "service_testing"
  /\ sortedEvents[3].event_type = "service_created"
  /\ allStates[1].endDate = <<>>
  /\ allStates[2].endDate # <<>>
  /\ Len(allStates) = 3

----------------------------------------------------------------------------
\* the emitted states that have an endDate
Closed(all) == {i \in 1..Len(all) : all[i].endDate # <<>>}

(* C26: the emitted list only grows: no step removes or reorders an emitted *)
(* state; and once a state has an endDate, neither its endDate nor any      *)
(* other field of it is changed by a later event.                           *)
C26_ClosedStatesFrozen ==
  [][/\ Len(allStates') >= Len(allStates)
     /\ \A i \in 1..Len(allStates) :
          /\ allStates'[i].id = allStates[i].id
          /\ allStates'[i].effectiveDate = allStates[i].effectiveDate
          /\ i \in Closed(allStates) => allStates'[i] = allStates[i]]_vars

\* three events of one service on three days: the first state was closed by
\* the second event and kept its endDate when the third closed the second
C26_Witness ==
  /\ idx = 3
  /\ Len(allStates) = 3
  /\ allStates[1].endDate = <<ToISOString(2)>>
  /\ allStates[2].endDate = <<ToISOString(3)>>
  /\ allStates[3].endDate = <<>>

----------------------------------------------------------------------------
\* serviceId joined with the date of effectiveDate
IdOf(state) == <<state.serviceId, TimeOfISO(state.effectiveDate)>>

\* every emitted state carries the id made of its own serviceId and date
IdsWellFormed == \A i \in 1..Len(allStates) : allStates[i].id = IdOf(allStates[i])

\* no two emitted states share an id
IdsDistinct ==
  \A i, j \in 1..Len(allStates) : i # j => allStates[i].id # allStates[j].id

\* the id a state was created with is the id it has after the step
IdsKept == \A i \in 1..Len(allStates) : allStates'[i].id = allStates[i].id

(* C27: every emitted state's id is its serviceId joined with the date of   *)
(* its effectiveDate and never changes after the state is created, and no   *)
(* two states in the emitted list have the same id.                         *)
C27_IdsStableAndUnique ==
  /\ [](IdsWellFormed /\ IdsDistinct)
  /\ [][IdsKept]_vars

\* what the code keeps of it: the form of the ids and their stability
C27_IdsStable == [](IdsWellFormed) /\ [][IdsKept]_vars

----------------------------------------------------------------------------
\* the rows of geometriesMeta whose fetch has settled with a result or a
\* failure (their callback has returned), those whose fetch is under way
\* (not answered, or answered and its body awaited), and those whose fetch
\* has been started
SettledFetches ==
  (1..Len(geometriesWithData))
    \cup {Len(geometriesWithData) + k : k \in {j \in 1..Len(batchResults) : batchResults[j] # <<>>}}
FetchesUnderWay == inFlight \cup DOMAIN pendingJson
StartedFetches == SettledFetches \cup FetchesUnderWay

\* the step starts fetches
StartsFetches == inFlight' \ inFlight # {}

\* the step starts the projection
StartsProjection == pc # "sort" /\ pc' = "sort"

(* C28: during rebuildCache at most 8 geometry fetches are in flight at any *)
(* moment; a batch starts only after every fetch of the previous batch has  *)
(* settled; and the projection starts only after every geometry fetch has   *)
(* settled, with a result or with a failure.                                *)
C28_BoundedFetches ==
  /\ [](Cardinality(FetchesUnderWay) <= 8)
  /\ [][StartsFetches => FetchesUnderWay = {} /\ StartedFetches = SettledFetches]_vars
  /\ [][StartsProjection =>
          /\ FetchesUnderWay = {}
          /\ SettledFetches = 1..Len(geometriesMeta)
          /\ \A k \in 1..Len(geometriesMeta) :
               geometriesWithData[k].geometry_name = geometriesMeta[k].geometry_name]_vars

\* the projection has started for a table of nine files, fetched in a batch
\* of eight and a batch of one, with a failure in each batch
C28_Witness ==
  /\ rpc = "process"
  /\ Len(geometriesMeta) = 9
  /\ geometriesWithData[1].geojson_data = <<>>
  /\ geometriesWithData[9].geojson_data = <<>>
  /\ geometriesWithData[2].geojson_data # <<>>

\* eight fetches are in flight
C28_EightInFlight == Cardinality(inFlight) = 8

----------------------------------------------------------------------------
\* the geometry names of the .geojson files present in the bucket
NamesInBucket ==
  {RemoveGeojson(f) : f \in {g \in DOMAIN geometryBucket : EndsWithGeojson(g)}}

\* syncGeometriesTable has completed, no call of the API has answered with
\* an error, and the local folder could be read
SyncedCleanly == spc = "done" /\ ~apiFailure /\ localFolder.readable

(* C29: after syncGeometriesTable completes without an API failure and with *)
(* a readable local geometries folder, the set of geometry names in the     *)
(* table equals the set of .geojson files present in the storage bucket,    *)
(* whatever the table, the bucket and the folder held at the start.         *)
C29_TableMatchesBucket ==
  SyncedCleanly => DOMAIN geometryTable = NamesInBucket

\* a clean run over a table with a row, a bucket with two files and an empty
\* folder: the file without a row got one, and both files were removed
C29_Witness ==
  /\ SyncedCleanly
  /\ existingNames # {}
  /\ Len(geojsonFiles) = 2
  /\ localFileSet[1] = {}
  /\ NamesInBucket = {}
  /\ DOMAIN geometryTable # {}

----------------------------------------------------------------------------
\* the local file is not in the bucket, or the bucket has other content
\* under its name
NewOrChanged(filename) ==
  \/ filename \notin DOMAIN geometryBucket
  \/ geometryBucket[filename] # localFolder.files[filename]

\* the step sends an upload for a file
Uploads == Len(requests') = Len(requests) + 1

(* C30: uploadGeometries uploads only local files that are new or changed   *)
(* relative to the bucket; a local file that is already in the bucket       *)
(* unchanged is skipped, not uploaded again.                                *)
C30_UploadsOnlyNewOrChanged ==
  [][Uploads => NewOrChanged(requests'[Len(requests')])]_vars

\* what the code does: every .geojson file of the folder is uploaded, once
C30_UploadsEveryLocalFile ==
  upc = "done" =>
    /\ Len(requests) = Len(localFiles)
    /\ {requests[i] : i \in 1..Len(requests)}
         = {f \in DOMAIN localFolder.files : EndsWithGeojson(f)}
    /\ skipped = 0

----------------------------------------------------------------------------
\* the service of the event consumed last has exactly one state without an
\* endDate, dated as that event and active
OneOpenActiveState ==
  LET s == LastEvent.aggregate_id
      open == OpenIndices(allStates, s)
  IN  /\ Cardinality(open) = 1
      /\ \A i \in open :
            /\ allStates[i].effectiveDate = ToISOString(GetTime(LastEvent.event_date))
            /\ allStates[i].status = "active"

\* before the event consumed last the service had at most one open state
SingleOpenBefore ==
  Cardinality(OpenIndices(Before.all, LastEvent.aggregate_id)) <= 1

(* C31: immediately after a service_created event dated d is processed, for *)
(* any prior history of the service (none, testing, announced, active,      *)
(* ended), the service has exactly one state without an endDate, and that   *)
(* state has effectiveDate d and status active.                             *)
C31_CreatedLeavesOneOpen ==
  (pc = "loop" /\ idx > 0 /\ LastEvent.event_type = "service_created")
    => OneOpenActiveState

\* the same for the histories that left at most one state open
C31_CreatedAfterSingleOpen ==
  (pc = "loop" /\ idx > 0 /\ LastEvent.event_type = "service_created" /\ SingleOpenBefore)
    => OneOpenActiveState

----------------------------------------------------------------------------
\* the fields an update of the kind may write when it is applied in place
WrittenInPlace(eventType) ==
  IF eventType \in GeometryUpdateTypes
  THEN {"geojsonPath", "area_square_miles", "coordinates", "lastUpdated"}
  ELSE IF eventType \in AttributeUpdateTypes
  THEN {TargetAttribute(eventType), "lastUpdated"}
  ELSE {"lastUpdated"}

\* the step consumes an update event and emits no state
UpdatesWithoutNewState ==
  /\ idx' = idx + 1
  /\ sortedEvents'[idx'].event_type \in GeometryUpdateTypes \cup UpdateTypes
  /\ Len(allStates') = Len(allStates)

(* C32: an update applied in place changes only the event kind's target     *)
(* attribute (for a geometry update: geojsonPath, area_square_miles and     *)
(* coordinates) and lastUpdated of the open state; the state's id,          *)
(* serviceId, effectiveDate, status, isActive and every other attribute     *)
(* keep their values.                                                       *)
C32_InPlaceWritesTargetOnly ==
  [][UpdatesWithoutNewState =>
       \A i \in 1..Len(allStates) :
         \A key \in DOMAIN allStates[i] \ WrittenInPlace(sortedEvents'[idx'].event_type) :
           allStates'[i][key] = allStates[i][key]]_vars

\* access_policy_changed, whose payload also names fares, was applied in
\* place to the state service_created emitted on the same day: the state has
\* the new access and the fares it was created with
C32_Witness ==
  /\ idx = 2
  /\ Len(allStates) = 1
  /\ sortedEvents[1].event_type = "service_created"
  /\ sortedEvents[2].event_type = "access_policy_changed"
  /\ sortedEvents[2].event_data.fares = "Yes"
  /\ allStates[1].access = "Public"
  /\ allStates[1].fares = "No"
  /\ allStates[1].endDate = <<>>

----------------------------------------------------------------------------
\* what validateServiceTimeline tracks for service s after the first k rows
\* of the file: its currentState, hasServiceCreated, and the number of the
\* service's rows among them
RECURSIVE TrackedAfter(_, _)
TrackedAfter(k, s) ==
  IF k = 0 THEN [state |-> NoTimelineState, created |-> FALSE, n |-> 0]
  ELSE LET before == TrackedAfter(k - 1, s)
           row == records[k]
       IN  IF ServiceIdOf(row.company, row.city) # s THEN before
           ELSE LET visit == TimelineEvent(before.state, before.created,
                                           [row |-> row, lineNum |-> k + 1, serviceId |-> s],
                                           before.n)
                IN  [state |-> visit.state, created |-> visit.created, n |-> before.n + 1]

\* the engine's current state of service s after the first k events
CurrentAfter(k, s) ==
  LET built == Project(SubSeq(sortedEvents, 1, k), geometryMap)
  IN  Deref(built.all, built.cur[s], DefaultState)

\* the attributes both programs keep: the validator's name and the engine's
TrackedAttributes ==
  { <<"platform", "platform">>, <<"fares", "fares">>, <<"access", "access">>,
    <<"supervision", "supervision">>, <<"service_model", "serviceModel">>,
    <<"vehicles", "vehicleTypes">>, <<"fleet_partner", "fleetPartner">> }

\* a value, with undefined and null taken as no value
ValueOrNone(v) == IF v \in {Undefined, Null} THEN "" ELSE v
FileOrNone(f) == IF f \in {UndefinedFile, NullFile, <<>>} THEN <<>> ELSE GeometryNameOf(f)

\* the two hold the same values
Agree(tracked, current) ==
  /\ \A a \in TrackedAttributes : ValueOrNone(tracked[a[1]]) = ValueOrNone(current[a[2]])
  /\ FileOrNone(tracked.geometry_file) = FileOrNone(current.geojsonPath)

\* both programs are through with the file, the validator without an error,
\* and the engine was given the rows in the order of the file
BothRanCleanly ==
  /\ vpc = "done"
  /\ ERRORS = <<>>
  /\ pc = "done"
  /\ Len(sortedEvents) = Len(records)
  /\ \A k \in 1..Len(records) : sortedEvents[k] = CsvRowToEvent(records[k])

(* C33: for any event list on which the validator records no error, after  *)
(* each event the value the validator tracks for platform, fares, access,   *)
(* supervision, service_model, vehicles, fleet_partner and geometry equals  *)
(* the value of that attribute on the engine's current state of the same    *)
(* service.                                                                 *)
C33_ValidatorTracksEngine ==
  BothRanCleanly =>
    \A k \in 1..Len(records) :
      LET s == sortedEvents[k].aggregate_id
      IN  Agree(TrackedAfter(k, s).state, CurrentAfter(k, s))

----------------------------------------------------------------------------
\* every emitted state has one of the three statuses, and is active exactly
\* when its status says so
StatusesConsistent ==
  \A i \in 1..Len(allStates) :
    /\ allStates[i].status \in {"testing", "announced", "active"}
    /\ allStates[i].isActive = TRUE <=> allStates[i].status = "active"

(* C34: every emitted state has status in {testing, announced, active} and  *)
(* isActive true exactly when status is active; the default-status pass at  *)
(* the end of the projection changes no state.                              *)
C34_StatusAndIsActive ==
  /\ [](StatusesConsistent)
  /\ [][Return => allStates' = allStates]_vars

\* the projection has returned a testing, an announced, an active and an
\* ended service's states
C34_Witness ==
  /\ pc = "done"
  /\ Len(allStates) = 3
  /\ allStates[1].status = "testing"
  /\ allStates[2].status = "announced"
  /\ allStates[3].status = "active"
  /\ allStates[3].endDate # <<>>
  /\ sortedEvents[4].event_type = "service_ended"
  /\ returned = <<allStates>>

----------------------------------------------------------------------------
\* rebuildCache has failed: its catch has rethrown the error
RebuildFailed == rpc = "thrown"

\* all-data.json is what the run before published
PreviousCachePresent == storage.main = BucketBefore.main

(* C35: if rebuildCache fails at any step (database fetch, backup upload,   *)
(* or upload of all-data.json), the all-data.json published by the previous *)
(* successful run is still present in the cache bucket.                     *)
C35_FailureKeepsPreviousCache ==
  RebuildFailed => PreviousCachePresent

----------------------------------------------------------------------------
\* a row of events.csv has no company, no city or no date
SomeRowIncomplete ==
  \E i \in 1..Len(importRecords) : MissingRequiredFields(importRecords[i])

(* C36: when a row of events.csv cannot be converted (empty company, city   *)
(* or date), importCSV exits with failure before it issues the delete or    *)
(* any insert, and the events table keeps its previous contents.            *)
C36_BadRowLeavesTableAlone ==
  /\ [](SomeRowIncomplete =>
         /\ ipc \in {"convert", "exit(1)"}
         /\ tableRequests = <<>>)
  /\ [][SomeRowIncomplete => eventsTable' = eventsTable]_vars

\* a file whose second row lacks a field has made the import exit, over a
\* table that held events
C36_Witness ==
  /\ ipc = "exit(1)"
  /\ Len(importRecords) = 2
  /\ ~MissingRequiredFields(importRecords[1])
  /\ MissingRequiredFields(importRecords[2])
  /\ eventsTable # <<>>

----------------------------------------------------------------------------
\* the bucket's all-data.json is the file of this run
NewCachePublished == storage.main = cacheData

(* C37: in src/rebuild-cache.js, rebuildCache returns true and reports the  *)
(* rebuild as complete only if the upload of all-data.json succeeded; a     *)
(* failed upload of all-data.json makes rebuildCache throw.                 *)
C37_CompleteOnlyIfPublished ==
  rpc = "done" => NewCachePublished

----------------------------------------------------------------------------
\* the geometries array of a cache file follows the rows the table query
\* returned, one entry per row
FollowsTable(cache) ==
  /\ Len(cache.geometries) = Len(geometriesMeta)
  /\ \A k \in 1..Len(geometriesMeta) :
       /\ cache.geometries[k].geometryName = geometriesMeta[k].geometry_name
       /\ cache.geometries[k].storageUrl = geometriesMeta[k].storage_url

\* loaded_geometries + failed_geometries = total_geometries
CountsAddUp(cache) ==
  LET stats == cache.metadata.export_stats
  IN  /\ stats.loaded_geometries + stats.failed_geometries = stats.total_geometries
      /\ stats.total_geometries = Len(geometriesMeta)

(* C38: the geometries array written to the cache has exactly one entry     *)
(* per row of the geometries table, in the order the table query returned   *)
(* them, whatever order the fetches complete in and whichever of them       *)
(* fail; loaded_geometries + failed_geometries equals total_geometries.     *)
C38_GeometriesFollowTable ==
  /\ cacheData # <<>> => FollowsTable(cacheData[1]) /\ CountsAddUp(cacheData[1])
  /\ rpc = "done" => FollowsTable(storage.main[1]) /\ CountsAddUp(storage.main[1])

\* all-data.json is written for a table of two batches, of which the first
\* fetch failed and the last succeeded
C38_Witness ==
  /\ rpc = "done"
  /\ Len(geometriesMeta) > BATCH_SIZE
  /\ storage.main[1].geometries[1].geojsonData = <<>>
  /\ storage.main[1].geometries[Len(geometriesMeta)].geojsonData # <<>>
  /\ storage.main[1].metadata.export_stats.failed_geometries > 1

====
